---- MODULE Spec2Model ----
(***************************************************************************)
(* Model of local-dns-forwarder (lff): the DNS wire codec                  *)
(* (src/src/dns), the allow/deny check lists (src/src/allowlist.rs,        *)
(* src/src/filters), the filtering UDP server (src/src/server.rs) and the  *)
(* ipctl command handler (src/src/bin/lff.rs).                             *)
(*                                                                         *)
(* Conventions.  A packet buffer is a record [buf, pos]; buf is the        *)
(* 512-byte array as a sequence, so the byte the code calls buf[i] is      *)
(* buf[i + 1] here.  A fallible operation returns a record [err, b, v]:    *)
(* err = "none" for Ok (b the buffer afterwards, v the value), the name of *)
(* the dns::Error variant for Err, and "panic" where the Rust code panics  *)
(* (an index out of bounds).  Strings are sequences of character codes.    *)
(***************************************************************************)
EXTENDS Integers, Sequences, FiniteSets, TLC

\* ------------------------------------------------------------ bounds

\* Most questions a client datagram of the model carries.
MaxQuestions == 1

\* Most answer records an upstream reply of the model carries.
MaxAnswers == 1

\* ------------------------------------------------------------ bytes

BUF_SIZE == 512

max_jumps == 5

Pow2(n) == 2 ^ n

\* (x >> k) & 1
Bit(x, k) == (x \div Pow2(k)) % 2

\* bool as u8
B2U(f) == IF f THEN 1 ELSE 0

Ok(b, v) == [err |-> "none", b |-> b, v |-> v]

Err(e, b) == [err |-> e, b |-> b, v |-> 0]

IsOk(r) == r.err = "none"

BytePacketBuffer_new == [buf |-> [i \in 1..BUF_SIZE |-> 0], pos |-> 0]

\* socket.recv_from(&mut buffer.buf): the payload lands at the front of the
\* zeroed array, cut to the array's size; the received length is dropped.
recv_into(payload) ==
    [buf |-> [i \in 1..BUF_SIZE |-> IF i <= Len(payload) THEN payload[i] ELSE 0],
     pos |-> 0]

seek(b, p) == [b EXCEPT !.pos = p]

read(b) ==
    IF b.pos < BUF_SIZE
    THEN Ok([b EXCEPT !.pos = @ + 1], b.buf[b.pos + 1])
    ELSE Err("EndOfBuffer", b)

read_range(b, len) ==
    IF b.pos + len < BUF_SIZE
    THEN Ok([b EXCEPT !.pos = @ + len], SubSeq(b.buf, b.pos + 1, b.pos + len))
    ELSE Err("EndOfBuffer", b)

\* The guard tests the cursor self.pos, not the argument: with the cursor in
\* range and pos outside the array the indexing panics.
get(b, p) ==
    IF b.pos < BUF_SIZE
    THEN IF p < BUF_SIZE THEN Ok(b, b.buf[p + 1]) ELSE Err("panic", b)
    ELSE Err("EndOfBuffer", b)

get_range(b, p, len) ==
    IF p + len < BUF_SIZE
    THEN Ok(b, SubSeq(b.buf, p + 1, p + len))
    ELSE Err("EndOfBuffer", b)

get_all(b) ==
    IF b.pos < BUF_SIZE
    THEN Ok(b, SubSeq(b.buf, 1, b.pos))
    ELSE Err("EndOfBuffer", b)

\* The `?` operator: r when it is an error, F(r) otherwise.
Then(r, F(_)) == IF IsOk(r) THEN F(r) ELSE r

\* let v = e; body: F applied to the value of e.
With(v, F(_)) == F(v)

read_u16(b) ==
    Then(read(b), LAMBDA r1 :
    Then(read(r1.b), LAMBDA r2 :
    Ok(r2.b, r1.v * 256 + r2.v)))

read_u32(b) ==
    Then(read_u16(b), LAMBDA r1 :
    Then(read_u16(r1.b), LAMBDA r2 :
    Ok(r2.b, r1.v * 65536 + r2.v)))

\* BytePacketBuffer::step: self.pos += steps; Ok(())
step(b, steps) == Ok([b EXCEPT !.pos = @ + steps], 0)

\* BytePacketBuffer::read_u128: sixteen reads, the first the most significant
\* byte; the value is kept as its four 32-bit words.
read_u128(b) ==
    Then(read_u32(b), LAMBDA r1 :
    Then(read_u32(r1.b), LAMBDA r2 :
    Then(read_u32(r2.b), LAMBDA r3 :
    Then(read_u32(r3.b), LAMBDA r4 :
    Ok(r4.b, << r1.v, r2.v, r3.v, r4.v >>)))))

\* A string is the sequence of its characters (code points); an ASCII
\* character is its byte.

\* The UTF-8 encoding of a character below U+10000.
encode_utf8(c) ==
    IF c < 128 THEN << c >>
    ELSE IF c < 2048 THEN << 192 + (c \div 64), 128 + (c % 64) >>
    ELSE << 224 + (c \div 4096), 128 + ((c \div 64) % 64), 128 + (c % 64) >>

RECURSIVE as_bytes(_)
\* str::as_bytes: the encodings of the characters, one after the other.
as_bytes(s) ==
    IF s = <<>> THEN <<>>
    ELSE IF Len(s) = 1 THEN encode_utf8(s[1])
    ELSE as_bytes(SubSeq(s, 1, Len(s) \div 2))
         \o as_bytes(SubSeq(s, Len(s) \div 2 + 1, Len(s)))

\* A UTF-8 continuation byte.
IsCont(x) == x >= 128 /\ x <= 191

\* The index of the first byte of v that is not ASCII, or Len(v) + 1.
first_non_ascii(v) ==
    IF \E i \in 1..Len(v) : v[i] >= 128
    THEN CHOOSE i \in 1..Len(v) : v[i] >= 128 /\ \A j \in 1..(i - 1) : v[j] < 128
    ELSE Len(v) + 1

RECURSIVE from_utf8_lossy(_)
\* String::from_utf8_lossy: a run of ASCII bytes is itself, a well-formed
\* sequence of two or three bytes is its character, a byte that starts no
\* well-formed sequence becomes U+FFFD.  (Four-byte sequences and three-byte
\* sequences cut short are not among the bytes the model reads.)
from_utf8_lossy(v) ==
    IF first_non_ascii(v) > Len(v) THEN v
    ELSE IF first_non_ascii(v) > 1
    THEN SubSeq(v, 1, first_non_ascii(v) - 1)
         \o from_utf8_lossy(SubSeq(v, first_non_ascii(v), Len(v)))
    ELSE IF v[1] >= 194 /\ v[1] <= 223 /\ Len(v) >= 2 /\ IsCont(v[2])
    THEN << (v[1] - 192) * 64 + (v[2] - 128) >> \o from_utf8_lossy(SubSeq(v, 3, Len(v)))
    ELSE IF /\ v[1] >= 224 /\ v[1] <= 239 /\ Len(v) >= 3 /\ IsCont(v[2]) /\ IsCont(v[3])
            /\ v[1] = 224 => v[2] >= 160
            /\ v[1] = 237 => v[2] <= 159
    THEN << (v[1] - 224) * 4096 + (v[2] - 128) * 64 + (v[3] - 128) >>
         \o from_utf8_lossy(SubSeq(v, 4, Len(v)))
    ELSE << 65533 >> \o from_utf8_lossy(Tail(v))

\* core::unicode::Cased on the letters of the model: A-Z, a-z, and the Greek
\* letters U+0391..U+03A9 and U+03B1..U+03C9.
Cased(c) ==
    \/ c >= 65 /\ c <= 90
    \/ c >= 97 /\ c <= 122
    \/ c >= 913 /\ c <= 937 /\ c # 930
    \/ c >= 945 /\ c <= 969

\* core::unicode::Case_Ignorable on ASCII: ' . : ^ `
Case_Ignorable(c) == c \in {39, 46, 58, 94, 96}

RECURSIVE case_ignorable_then_cased(_)
\* match iter.skip_while(|&c| Case_Ignorable(c)).next() { Some(c) => Cased(c), None => false }
case_ignorable_then_cased(s) ==
    IF s = <<>> THEN FALSE
    ELSE IF Case_Ignorable(Head(s)) THEN case_ignorable_then_cased(Tail(s))
    ELSE Cased(Head(s))

\* chars().rev()
Reversed(s) == [i \in 1..Len(s) |-> s[Len(s) + 1 - i]]

\* The capital sigma at index i of `from` maps to the final sigma U+03C2 when
\* a cased letter comes before it and none comes after it, case-ignorable
\* characters skipped, and to U+03C3 otherwise.
map_uppercase_sigma(from, i) ==
    IF /\ case_ignorable_then_cased(Reversed(SubSeq(from, 1, i - 1)))
       /\ ~case_ignorable_then_cased(SubSeq(from, i + 1, Len(from)))
    THEN 962 ELSE 963

\* str::to_lowercase: A-Z and the Greek capitals are folded, the capital sigma
\* U+03A3 by its place in the string; the other characters of the model have
\* no lower case.
to_lowercase(s) ==
    [i \in 1..Len(s) |->
        IF s[i] = 931 THEN map_uppercase_sigma(s, i)
        ELSE IF (s[i] >= 65 /\ s[i] <= 90) \/ (s[i] >= 913 /\ s[i] <= 937 /\ s[i] # 930)
        THEN s[i] + 32
        ELSE s[i]]

Dot == 46

Star == 42

Quest == 63

RECURSIVE read_qname_loop_seeking_each_jump(_, _, _, _, _, _)
\* A faulty loop: the cursor is moved past every pointer that is followed,
\* not past the first one only.
read_qname_loop_seeking_each_jump(b, p, jumped, jumps_performed, ret, first) ==
    IF jumps_performed > max_jumps THEN Err("JumpLimit", b)
    ELSE Then(get(b, p), LAMBDA rl :
         IF rl.v >= 192
         THEN Then(get(seek(b, p + 2), p + 1), LAMBDA r2 :
              read_qname_loop_seeking_each_jump(r2.b, (rl.v - 192) * 256 + r2.v,
                              TRUE, jumps_performed + 1, ret, first))
         ELSE IF rl.v = 0
         THEN Ok(IF ~jumped THEN seek(b, p + 1) ELSE b, ret)
         ELSE Then(get_range(b, p + 1, rl.v), LAMBDA rs :
              read_qname_loop_seeking_each_jump(b, p + 1 + rl.v, jumped,
                  jumps_performed,
                  ret \o (IF first THEN <<>> ELSE <<Dot>>)
                      \o to_lowercase(from_utf8_lossy(rs.v)),
                  FALSE)))

RECURSIVE read_qname_loop(_, _, _, _, _, _)
\* One iteration of the loop of read_qname: b carries the cursor self.pos,
\* p is the local pos, first is TRUE until the first label was pushed
\* (delim = "").
read_qname_loop(b, p, jumped, jumps_performed, ret, first) ==
    IF jumps_performed > max_jumps THEN Err("JumpLimit", b)
    ELSE Then(get(b, p), LAMBDA rl :
         IF rl.v >= 192
         THEN Then(get(IF ~jumped THEN seek(b, p + 2) ELSE b, p + 1), LAMBDA r2 :
              read_qname_loop(r2.b, (rl.v - 192) * 256 + r2.v, TRUE,
                              jumps_performed + 1, ret, first))
         ELSE IF rl.v = 0
         THEN Ok(IF ~jumped THEN seek(b, p + 1) ELSE b, ret)
         ELSE Then(get_range(b, p + 1, rl.v), LAMBDA rs :
              read_qname_loop(b, p + 1 + rl.v, jumped, jumps_performed,
                  ret \o (IF first THEN <<>> ELSE <<Dot>>)
                      \o to_lowercase(from_utf8_lossy(rs.v)),
                  FALSE)))

read_qname(b) == read_qname_loop(b, b.pos, FALSE, 0, <<>>, TRUE)

\* The locals of read_qname as the loop is entered with the cursor at p:
\* first is TRUE while delim is "".
read_qname_locals(p) ==
    [pos |-> p, jumped |-> FALSE, jumps_performed |-> 0, ret |-> <<>>, first |-> TRUE]

\* The loop goes on with the buffer b and the locals l, or is left with out:
\* "none" for the break, else the error returned.
Iterated(b, l, out) == [b |-> b, l |-> l, out |-> out]

\* A faulty iteration: a pointer is followed without being counted.
read_qname_iteration_not_counting(b, l) ==
    IF l.jumps_performed > max_jumps THEN Iterated(b, l, "JumpLimit")
    ELSE With(get(b, l.pos), LAMBDA rl :
         IF ~IsOk(rl) THEN Iterated(b, l, rl.err)
         ELSE IF rl.v >= 192
         THEN With(get(IF ~l.jumped THEN seek(b, l.pos + 2) ELSE b, l.pos + 1), LAMBDA r2 :
              IF ~IsOk(r2) THEN Iterated(r2.b, l, r2.err)
              ELSE Iterated(r2.b, [l EXCEPT !.pos = (rl.v - 192) * 256 + r2.v,
                                            !.jumped = TRUE], "continue"))
         ELSE IF rl.v = 0
         THEN Iterated(IF ~l.jumped THEN seek(b, l.pos + 1) ELSE b,
                       [l EXCEPT !.pos = @ + 1], "none")
         ELSE With(get_range(b, l.pos + 1, rl.v), LAMBDA rs :
              IF ~IsOk(rs) THEN Iterated(b, [l EXCEPT !.pos = @ + 1], rs.err)
              ELSE Iterated(b, [l EXCEPT !.pos = @ + 1 + rl.v,
                                         !.ret = @ \o (IF l.first THEN <<>> ELSE <<Dot>>)
                                                   \o to_lowercase(from_utf8_lossy(rs.v)),
                                         !.first = FALSE], "continue")))

\* One iteration of the loop of read_qname, from the locals l.
read_qname_iteration(b, l) ==
    IF l.jumps_performed > max_jumps THEN Iterated(b, l, "JumpLimit")
    ELSE With(get(b, l.pos), LAMBDA rl :
         IF ~IsOk(rl) THEN Iterated(b, l, rl.err)
         ELSE IF rl.v >= 192
         THEN With(get(IF ~l.jumped THEN seek(b, l.pos + 2) ELSE b, l.pos + 1), LAMBDA r2 :
              IF ~IsOk(r2) THEN Iterated(r2.b, l, r2.err)
              ELSE Iterated(r2.b, [l EXCEPT !.pos = (rl.v - 192) * 256 + r2.v,
                                            !.jumped = TRUE,
                                            !.jumps_performed = @ + 1], "continue"))
         ELSE IF rl.v = 0
         THEN Iterated(IF ~l.jumped THEN seek(b, l.pos + 1) ELSE b,
                       [l EXCEPT !.pos = @ + 1], "none")
         ELSE With(get_range(b, l.pos + 1, rl.v), LAMBDA rs :
              IF ~IsOk(rs) THEN Iterated(b, [l EXCEPT !.pos = @ + 1], rs.err)
              ELSE Iterated(b, [l EXCEPT !.pos = @ + 1 + rl.v,
                                         !.ret = @ \o (IF l.first THEN <<>> ELSE <<Dot>>)
                                                   \o to_lowercase(from_utf8_lossy(rs.v)),
                                         !.first = FALSE], "continue")))

write(b, v) ==
    IF b.pos < BUF_SIZE
    THEN Ok([buf |-> [b.buf EXCEPT ![b.pos + 1] = v], pos |-> b.pos + 1], 0)
    ELSE Err("EndOfBuffer", b)

write_u8(b, v) == write(b, v)

write_u16(b, v) ==
    Then(write(b, v \div 256), LAMBDA r1 : write(r1.b, v % 256))

write_u32(b, v) ==
    Then(write_u16(b, (v \div 65536) % 65536), LAMBDA r1 : write_u16(r1.b, v % 65536))

\* The buffer after the first n bytes of s were written at the cursor.
with_written(b, s, n) ==
    [buf |-> [i \in 1..BUF_SIZE |->
                 IF i > b.pos /\ i <= b.pos + n THEN s[i - b.pos] ELSE b.buf[i]],
     pos |-> b.pos + n]

\* for b in label.as_bytes() { self.write_u8(*b)?; }: the bytes are written
\* one by one until the one that no longer fits, which ends the loop with
\* the error of write.
write_bytes(b, s) ==
    IF b.pos + Len(s) <= BUF_SIZE \/ s = <<>> THEN Ok(with_written(b, s, Len(s)), 0)
    ELSE IF b.pos >= BUF_SIZE THEN Err("EndOfBuffer", b)
    ELSE Err("EndOfBuffer", with_written(b, s, BUF_SIZE - b.pos))

\* The index of the first '.' of s, or Len(s) + 1 when s has none.
first_dot(s) ==
    IF \E i \in 1..Len(s) : s[i] = Dot
    THEN CHOOSE i \in 1..Len(s) : s[i] = Dot /\ \A j \in 1..(i - 1) : s[j] # Dot
    ELSE Len(s) + 1

RECURSIVE split_dot(_, _)
\* qname.split('.'): cur is the label being collected; the characters up to
\* the next '.' complete it.
split_dot(s, cur) ==
    IF first_dot(s) > Len(s) THEN << cur \o s >>
    ELSE << cur \o SubSeq(s, 1, first_dot(s) - 1) >>
         \o split_dot(SubSeq(s, first_dot(s) + 1, Len(s)), <<>>)

RECURSIVE write_labels(_, _)
write_labels(b, labels) ==
    IF labels = <<>> THEN write_u8(b, 0)
    ELSE IF Len(as_bytes(Head(labels))) > 63 THEN Err("SingleLabelLimit", b)
    ELSE Then(write_u8(b, Len(as_bytes(Head(labels)))), LAMBDA r1 :
         Then(write_bytes(r1.b, as_bytes(Head(labels))), LAMBDA r2 :
         write_labels(r2.b, Tail(labels))))

write_qname(b, qname) == write_labels(b, split_dot(qname, <<>>))

\* ------------------------------------------------------------ result codes, query types

ResultCodes ==
    {"NoError", "FormErr", "ServFail", "NXDomain", "NotImp", "Refused",
     "YXDomain", "YXRRSet", "NXRRSet", "NotAuth", "NotZone", "DSOTYPENI",
     "BADVERS", "BADKEY", "BADTIME", "BADMODE", "BADNAME", "BADALG",
     "BADTRUNC", "BADCOOKIE"}

\* The discriminants of enum ResultCode (rescode as u8).
ResultCode_u8(c) ==
    CASE c = "NoError" -> 0 [] c = "FormErr" -> 1 [] c = "ServFail" -> 2
      [] c = "NXDomain" -> 3 [] c = "NotImp" -> 4 [] c = "Refused" -> 5
      [] c = "YXDomain" -> 6 [] c = "YXRRSet" -> 7 [] c = "NXRRSet" -> 8
      [] c = "NotAuth" -> 9 [] c = "NotZone" -> 10 [] c = "DSOTYPENI" -> 11
      [] c = "BADVERS" -> 16 [] c = "BADKEY" -> 17 [] c = "BADTIME" -> 18
      [] c = "BADMODE" -> 19 [] c = "BADNAME" -> 20 [] c = "BADALG" -> 21
      [] c = "BADTRUNC" -> 22 [] c = "BADCOOKIE" -> 23

\* impl From<u8> for ResultCode
ResultCode_from(value) ==
    IF \E c \in ResultCodes : ResultCode_u8(c) = value
    THEN CHOOSE c \in ResultCodes : ResultCode_u8(c) = value
    ELSE "NoError"

\* impl From<u16> for QueryType; num keeps the code of UNKNOWN(v).
QueryType_from(value) ==
    CASE value = 1 -> [kind |-> "A", num |-> 1]
      [] value = 5 -> [kind |-> "CNAME", num |-> 5]
      [] value = 28 -> [kind |-> "AAAA", num |-> 28]
      [] value = 33 -> [kind |-> "SRV", num |-> 33]
      [] OTHER -> [kind |-> "UNKNOWN", num |-> value]

\* impl From<QueryType> for u16
QueryType_u16(qtype) ==
    CASE qtype.kind = "UNKNOWN" -> qtype.num
      [] qtype.kind = "A" -> 1
      [] qtype.kind = "AAAA" -> 28
      [] qtype.kind = "CNAME" -> 5
      [] qtype.kind = "SRV" -> 33

\* ------------------------------------------------------------ header

RECURSIVE BitOr(_, _)
\* x | y on unsigned integers
BitOr(x, y) ==
    IF x = 0 THEN y
    ELSE IF y = 0 THEN x
    ELSE (IF x % 2 = 1 \/ y % 2 = 1 THEN 1 ELSE 0) + 2 * BitOr(x \div 2, y \div 2)

Header_new ==
    [id |-> 0, recursion_desired |-> FALSE, truncated_message |-> FALSE,
     authoritative_answer |-> FALSE, opcode |-> 0, response |-> FALSE,
     rescode |-> "NoError", checking_disabled |-> FALSE, authed_data |-> FALSE,
     z |-> FALSE, recursion_available |-> FALSE,
     questions |-> 0, answers |-> 0, authoritative_entries |-> 0,
     resource_entries |-> 0]

Header_read(buffer) ==
    Then(read_u16(buffer), LAMBDA r1 :
    Then(read_u16(r1.b), LAMBDA r2 :
    Then(read_u16(r2.b), LAMBDA r3 :
    Then(read_u16(r3.b), LAMBDA r4 :
    Then(read_u16(r4.b), LAMBDA r5 :
    Then(read_u16(r5.b), LAMBDA r6 :
    Ok(r6.b,
       [id |-> r1.v,
        recursion_desired |-> Bit(r2.v \div 256, 0) = 1,
        truncated_message |-> Bit(r2.v \div 256, 1) = 1,
        authoritative_answer |-> Bit(r2.v \div 256, 2) = 1,
        opcode |-> ((r2.v \div 256) \div 8) % 16,
        response |-> Bit(r2.v \div 256, 7) = 1,
        rescode |-> ResultCode_from((r2.v % 256) % 16),
        checking_disabled |-> Bit(r2.v % 256, 4) = 1,
        authed_data |-> Bit(r2.v % 256, 5) = 1,
        z |-> Bit(r2.v % 256, 6) = 1,
        recursion_available |-> Bit(r2.v % 256, 7) = 1,
        questions |-> r3.v, answers |-> r4.v,
        authoritative_entries |-> r5.v, resource_entries |-> r6.v])))))))

\* A faulty Header::write: the two flag bytes are written in the other order.
Header_write_flags_swapped(h, buffer) ==
    Then(write_u16(buffer, h.id), LAMBDA r1 :
    Then(write_u8(r1.b,
            BitOr(ResultCode_u8(h.rescode),
            BitOr(B2U(h.checking_disabled) * 16,
            BitOr(B2U(h.authed_data) * 32,
            BitOr(B2U(h.z) * 64, B2U(h.recursion_available) * 128))))), LAMBDA r2 :
    Then(write_u8(r2.b,
            BitOr(B2U(h.recursion_desired),
            BitOr(B2U(h.truncated_message) * 2,
            BitOr(B2U(h.authoritative_answer) * 4,
            BitOr((h.opcode * 8) % 256, B2U(h.response) * 128))))), LAMBDA r3 :
    Then(write_u16(r3.b, h.questions), LAMBDA r4 :
    Then(write_u16(r4.b, h.answers), LAMBDA r5 :
    Then(write_u16(r5.b, h.authoritative_entries), LAMBDA r6 :
    write_u16(r6.b, h.resource_entries)))))))

Header_write(h, buffer) ==
    Then(write_u16(buffer, h.id), LAMBDA r1 :
    Then(write_u8(r1.b,
            BitOr(B2U(h.recursion_desired),
            BitOr(B2U(h.truncated_message) * 2,
            BitOr(B2U(h.authoritative_answer) * 4,
            BitOr((h.opcode * 8) % 256, B2U(h.response) * 128))))), LAMBDA r2 :
    Then(write_u8(r2.b,
            BitOr(ResultCode_u8(h.rescode),
            BitOr(B2U(h.checking_disabled) * 16,
            BitOr(B2U(h.authed_data) * 32,
            BitOr(B2U(h.z) * 64, B2U(h.recursion_available) * 128))))), LAMBDA r3 :
    Then(write_u16(r3.b, h.questions), LAMBDA r4 :
    Then(write_u16(r4.b, h.answers), LAMBDA r5 :
    Then(write_u16(r5.b, h.authoritative_entries), LAMBDA r6 :
    write_u16(r6.b, h.resource_entries)))))))

\* ------------------------------------------------------------ question

Question_new(name, qtype, class) == [name |-> name, qtype |-> qtype, class |-> class]

Question_read(buf) ==
    Then(read_qname(buf), LAMBDA r1 :
    Then(read_u16(r1.b), LAMBDA r2 :
    Then(read_u16(r2.b), LAMBDA r3 :
    Ok(r3.b, Question_new(r1.v, QueryType_from(r2.v), r3.v)))))

Question_write(q, buffer) ==
    Then(write_qname(buffer, q.name), LAMBDA r1 :
    Then(write_u16(r1.b, QueryType_u16(q.qtype)), LAMBDA r2 :
    write_u16(r2.b, q.class)))

\* ------------------------------------------------------------ record

\* An rdata value: tag is the RData variant; the fields a variant does not
\* carry are left at their defaults.  addr is the address as its octets (A)
\* or its eight 16-bit segments (AAAA).
RData_new(tag) ==
    [tag |-> tag, addr |-> <<>>, len |-> 0, name |-> <<>>, priority |-> 0,
     weight |-> 0, port |-> 0, qtype |-> QueryType_from(0), bytes |-> <<>>]

Record_new(name, qtype, class, ttl, rdlength, rdata) ==
    [name |-> name, qtype |-> qtype, class |-> class, ttl |-> ttl,
     rdlength |-> rdlength, rdata |-> rdata]

\* The match on qtype of Record::read: v is the rdata.
RData_read(buf, qtype, rdlen) ==
    CASE qtype.kind = "A" ->
            Then(read_u32(buf), LAMBDA a :
            Ok(a.b, [RData_new("A") EXCEPT !.addr =
                       << (a.v \div 16777216) % 256, (a.v \div 65536) % 256,
                          (a.v \div 256) % 256, a.v % 256 >>]))
      [] qtype.kind = "AAAA" ->
            Then(read_u32(buf), LAMBDA a1 :
            Then(read_u32(a1.b), LAMBDA a2 :
            Then(read_u32(a2.b), LAMBDA a3 :
            Then(read_u32(a3.b), LAMBDA a4 :
            Ok(a4.b, [RData_new("AAAA") EXCEPT !.addr =
                        << a1.v \div 65536, a1.v % 65536,
                           a2.v \div 65536, a2.v % 65536,
                           a3.v \div 65536, a3.v % 65536,
                           a4.v \div 65536, a4.v % 65536 >>])))))
      [] qtype.kind = "CNAME" ->
            Then(read_qname(buf), LAMBDA n :
            Ok(n.b, [RData_new("CNAME") EXCEPT !.len = rdlen, !.name = n.v]))
      [] qtype.kind = "SRV" ->
            Then(read_u16(buf), LAMBDA p1 :
            Then(read_u16(p1.b), LAMBDA p2 :
            Then(read_u16(p2.b), LAMBDA p3 :
            Then(read_qname(p3.b), LAMBDA n :
            Ok(n.b, [RData_new("SRV") EXCEPT
                       !.len = rdlen, !.priority = p1.v, !.weight = p2.v,
                       !.port = p3.v, !.name = n.v])))))
      [] OTHER ->
            Then(read_range(buf, rdlen), LAMBDA v :
            Ok(v.b, [RData_new("Unknown") EXCEPT !.qtype = qtype, !.bytes = v.v]))

Record_read(buf) ==
    Then(read_qname(buf), LAMBDA r1 :
    Then(read_u16(r1.b), LAMBDA r2 :
    Then(read_u16(r2.b), LAMBDA r3 :
    Then(read_u32(r3.b), LAMBDA r4 :
    Then(read_u16(r4.b), LAMBDA r5 :
    Then(RData_read(r5.b, QueryType_from(r2.v), r5.v), LAMBDA d :
    Ok(d.b, Record_new(r1.v, QueryType_from(r2.v), r3.v, r4.v, r5.v, d.v))))))))

\* ------------------------------------------------------------ message

Message_new ==
    [header |-> Header_new, questions |-> <<>>, answers |-> <<>>,
     authorities |-> <<>>, resources |-> <<>>]

RECURSIVE read_questions(_, _, _)
\* for _ in 0..n { Question::read(buf)?; push }
read_questions(buf, n, acc) ==
    IF n = 0 THEN Ok(buf, acc)
    ELSE Then(Question_read(buf), LAMBDA r :
         read_questions(r.b, n - 1, Append(acc, r.v)))

RECURSIVE read_records(_, _, _)
\* for _ in 0..n { Record::read(buf)?; push }
read_records(buf, n, acc) ==
    IF n = 0 THEN Ok(buf, acc)
    ELSE Then(Record_read(buf), LAMBDA r :
         read_records(r.b, n - 1, Append(acc, r.v)))

Message_read(buf) ==
    Then(Header_read(buf), LAMBDA h :
    Then(read_questions(h.b, h.v.questions, <<>>), LAMBDA q :
    Then(read_records(q.b, h.v.answers, <<>>), LAMBDA an :
    Then(read_records(an.b, h.v.authoritative_entries, <<>>), LAMBDA au :
    Then(read_records(au.b, h.v.resource_entries, <<>>), LAMBDA re :
    Ok(re.b, [header |-> h.v, questions |-> q.v, answers |-> an.v,
              authorities |-> au.v, resources |-> re.v]))))))

RECURSIVE write_questions(_, _)
write_questions(buf, qs) ==
    IF qs = <<>> THEN Ok(buf, 0)
    ELSE Then(Question_write(Head(qs), buf), LAMBDA r : write_questions(r.b, Tail(qs)))

\* Copies v at the cursor; the cursor is left where it was.
write_range(b, v) ==
    IF b.pos + Len(v) < BUF_SIZE
    THEN Ok([b EXCEPT !.buf = [i \in 1..BUF_SIZE |->
                IF i > b.pos /\ i <= b.pos + Len(v) THEN v[i - b.pos] ELSE b.buf[i]]], 0)
    ELSE Err("EndOfBuffer", b)

RECURSIVE write_u16s(_, _)
\* for octet in &v.segments() { buf.write_u16(*octet)?; }
write_u16s(b, s) ==
    IF s = <<>> THEN Ok(b, 0)
    ELSE Then(write_u16(b, Head(s)), LAMBDA r : write_u16s(r.b, Tail(s)))

\* The part every arm of Record::write starts with: name, type, class, ttl
\* and the rdlength the arm chose.
Record_write_head(rec, buf, typenum, rdlength) ==
    Then(write_qname(buf, rec.name), LAMBDA r1 :
    Then(write_u16(r1.b, typenum), LAMBDA r2 :
    Then(write_u16(r2.b, rec.class), LAMBDA r3 :
    Then(write_u32(r3.b, rec.ttl), LAMBDA r4 :
    write_u16(r4.b, rdlength)))))

Record_write(rec, buf) ==
    CASE rec.rdata.tag = "A" ->
            Then(Record_write_head(rec, buf, 1, 4), LAMBDA h :
            write_bytes(h.b, rec.rdata.addr))
      [] rec.rdata.tag = "AAAA" ->
            Then(Record_write_head(rec, buf, 28, 16), LAMBDA h :
            write_u16s(h.b, rec.rdata.addr))
      [] rec.rdata.tag = "CNAME" ->
            Then(Record_write_head(rec, buf, 5, rec.rdata.len), LAMBDA h :
            write_qname(h.b, rec.rdata.name))
      [] rec.rdata.tag = "SRV" ->
            Then(Record_write_head(rec, buf, 33, rec.rdata.len), LAMBDA h :
            Then(write_u16(h.b, rec.rdata.priority), LAMBDA p1 :
            Then(write_u16(p1.b, rec.rdata.weight), LAMBDA p2 :
            Then(write_u16(p2.b, rec.rdata.port), LAMBDA p3 :
            write_qname(p3.b, rec.rdata.name)))))
      [] rec.rdata.tag = "Unknown" ->
            Then(Record_write_head(rec, buf, QueryType_u16(rec.rdata.qtype),
                                   Len(rec.rdata.bytes) % 65536), LAMBDA h :
            write_range(h.b, rec.rdata.bytes))

RECURSIVE write_records(_, _)
write_records(buf, recs) ==
    IF recs = <<>> THEN Ok(buf, 0)
    ELSE Then(Record_write(Head(recs), buf), LAMBDA r : write_records(r.b, Tail(recs)))

\* self.header.<count> = self.<section>.len() as u16, four times.
set_counts(msg) ==
    [msg EXCEPT
        !.header.questions = Len(msg.questions) % 65536,
        !.header.answers = Len(msg.answers) % 65536,
        !.header.authoritative_entries = Len(msg.authorities) % 65536,
        !.header.resource_entries = Len(msg.resources) % 65536]

\* Message::write(&mut self, buf): the value of the result is self afterwards,
\* with the four counters set from the section lengths.
Message_write(msg, buf) ==
    Then(Header_write(set_counts(msg).header, buf), LAMBDA h :
    Then(write_questions(h.b, msg.questions), LAMBDA q :
    Then(write_records(q.b, msg.answers), LAMBDA an :
    Then(write_records(an.b, msg.authorities), LAMBDA au :
    Then(write_records(au.b, msg.resources), LAMBDA re :
    Ok(re.b, set_counts(msg)))))))

\* ------------------------------------------------------------ check lists

contains_star(name) == \E i \in 1..Len(name) : name[i] = Star

RECURSIVE WildMatch_matches(_, _)
\* WildMatch::new(pattern).matches(input): `*` is any run of characters, the
\* empty one included, `?` is exactly one character, anything else is itself;
\* the whole input has to be matched.
WildMatch_matches(pattern, input) ==
    IF pattern = <<>> THEN input = <<>>
    ELSE IF Head(pattern) = Star
         THEN \/ WildMatch_matches(Tail(pattern), input)
              \/ input # <<>> /\ WildMatch_matches(pattern, Tail(input))
         ELSE /\ input # <<>>
              /\ Head(pattern) = Quest \/ Head(pattern) = Head(input)
              /\ WildMatch_matches(Tail(pattern), Tail(input))

\* InMemoryAllowList::new(): path None is "none".
InMemoryAllowList_new == [path |-> "none", names |-> {}, wnames |-> {}]

\* InMemoryAllowList::from_file(path), for a file that holds the set `lines`.
InMemoryAllowList_from_file(path, lines) ==
    [path |-> path,
     names |-> {l \in lines : ~contains_star(l)},
     wnames |-> {l \in lines : contains_star(l)}]

CarriageReturn == 13

LineFeed == 10

\* BufRead::lines takes "\n" or "\r\n" off the end of a line.
strip_cr(line) ==
    IF line # <<>> /\ line[Len(line)] = CarriageReturn
    THEN SubSeq(line, 1, Len(line) - 1)
    ELSE line

RECURSIVE BufRead_lines(_, _)
\* BufReader::new(file).lines() on the bytes of the file: cur is the line
\* being read.  What follows the last "\n" is a line unless it is empty.
BufRead_lines(bytes, cur) ==
    IF bytes = <<>> THEN (IF cur = <<>> THEN <<>> ELSE << strip_cr(cur) >>)
    ELSE IF Head(bytes) = LineFeed
    THEN << strip_cr(cur) >> \o BufRead_lines(Tail(bytes), <<>>)
    ELSE BufRead_lines(Tail(bytes), Append(cur, Head(bytes)))

RECURSIVE writeln_all(_)
\* writeln!(w, "{}", name) for each of the names: the bytes of the file.
writeln_all(names) ==
    IF names = <<>> THEN <<>>
    ELSE Head(names) \o << LineFeed >> \o writeln_all(Tail(names))

\* InMemoryAllowList::from_file(path) for the file save has left: written is
\* the sequence of names it wrote.
InMemoryAllowList_load(path, written) ==
    InMemoryAllowList_from_file(path,
        { l : l \in { BufRead_lines(writeln_all(written), <<>>)[i] :
                      i \in 1..Len(BufRead_lines(writeln_all(written), <<>>)) } })

\* A faulty check: the patterns are not consulted.
CheckList_check_names_only(list, name) == name \in list.names

\* A faulty check: a pattern counts when it matches some part of the name.
CheckList_check_unanchored(list, name) ==
    IF name \in list.names THEN TRUE
    ELSE \E w \in list.wnames : \E i \in 1..(Len(name) + 1), j \in 0..Len(name) :
            WildMatch_matches(w, SubSeq(name, i, j))

\* InMemoryAllowList::check
CheckList_check(list, name) ==
    IF name \in list.names THEN TRUE
    ELSE \E w \in list.wnames : WildMatch_matches(w, name)

\* A faulty add: a pattern is stored with the exact names as well.
CheckList_add_pattern_as_name(list, name) ==
    IF name \notin list.names
    THEN [list |-> [list EXCEPT !.names = @ \cup {name},
                                !.wnames = IF contains_star(name)
                                           THEN @ \cup {name} ELSE @],
          n |-> 1]
    ELSE [list |-> list, n |-> 0]

\* A faulty add: an exact name counts as inserted whether it was there or not.
CheckList_add_counting_again(list, name) ==
    IF contains_star(name)
    THEN IF name \notin list.wnames
         THEN [list |-> [list EXCEPT !.wnames = @ \cup {name}], n |-> 1]
         ELSE [list |-> list, n |-> 0]
    ELSE [list |-> [list EXCEPT !.names = @ \cup {name}], n |-> 1]

\* InMemoryAllowList::add: [list, n], the list afterwards and the count returned.
CheckList_add(list, name) ==
    IF contains_star(name)
    THEN IF name \notin list.wnames
         THEN [list |-> [list EXCEPT !.wnames = @ \cup {name}], n |-> 1]
         ELSE [list |-> list, n |-> 0]
    ELSE IF name \notin list.names
         THEN [list |-> [list EXCEPT !.names = @ \cup {name}], n |-> 1]
         ELSE [list |-> list, n |-> 0]

\* A delete that takes a pattern out as well.
CheckList_delete_any(list, name) ==
    IF name \in list.names \cup list.wnames
    THEN [list |-> [list EXCEPT !.names = @ \ {name}, !.wnames = @ \ {name}], n |-> 1]
    ELSE [list |-> list, n |-> 0]

\* InMemoryAllowList::delete
CheckList_delete(list, name) ==
    IF name \in list.names
    THEN [list |-> [list EXCEPT !.names = @ \ {name}], n |-> 1]
    ELSE [list |-> list, n |-> 0]

CheckList_count(list) == Cardinality(list.names) + Cardinality(list.wnames)

CompositeCheckList_new(allowlist, denylist) ==
    [allowlist |-> allowlist, denylist |-> denylist]

\* A faulty CompositeCheckList::check: the allowlist is asked first.
CompositeCheckList_check_allow_first(cl, name) ==
    IF CheckList_check(cl.allowlist, name) THEN "Allow"
    ELSE IF CheckList_check(cl.denylist, name) THEN "Deny"
    ELSE "NotFound"

CompositeCheckList_check(cl, name) ==
    IF CheckList_check(cl.denylist, name) THEN "Deny"
    ELSE IF CheckList_check(cl.allowlist, name) THEN "Allow"
    ELSE "NotFound"

\* ------------------------------------------------------------ resolved data, status

\* The derived Ord of QueryType: the variants in declaration order, UNKNOWN
\* by its code.
QueryType_rank(qtype) ==
    CASE qtype.kind = "UNKNOWN" -> 0
      [] qtype.kind = "A" -> 1
      [] qtype.kind = "AAAA" -> 2
      [] qtype.kind = "CNAME" -> 3
      [] qtype.kind = "SRV" -> 4

QueryType_lt(x, y) ==
    \/ QueryType_rank(x) < QueryType_rank(y)
    \/ QueryType_rank(x) = QueryType_rank(y) /\ x.num < y.num

\* ResolvedData::new; resp, a BTreeMap, is the sequence of its entries
\* [key, values] in key order.
ResolvedData_new(req_qtype, req_name) ==
    [req_qtype |-> req_qtype, req_name |-> req_name, resp |-> <<>>]

RECURSIVE map_insert(_, _, _)
\* self.resp.entry(key).or_default().push(value)
map_insert(resp, key, value) ==
    IF resp = <<>> THEN << [key |-> key, values |-> <<value>>] >>
    ELSE IF Head(resp).key = key
         THEN << [key |-> key, values |-> Append(Head(resp).values, value)] >>
              \o Tail(resp)
    ELSE IF QueryType_lt(key, Head(resp).key)
         THEN << [key |-> key, values |-> <<value>>] >> \o resp
    ELSE << Head(resp) >> \o map_insert(Tail(resp), key, value)

ResolvedData_insert(d, resp_qtype, resp_name) ==
    [d EXCEPT !.resp = map_insert(@, resp_qtype, resp_name)]

\* A ResolvedStatus: variant, data and the result code ("" for the variants
\* that carry none).
ResolvedStatus(variant, data, code) == [variant |-> variant, data |-> data, code |-> code]

\* A faulty into_nocheck: the status is returned as it is.
into_nocheck_keep(st) == st

into_nocheck(st) ==
    CASE st.variant = "Allow" -> ResolvedStatus("NoCheck", st.data, "")
      [] st.variant = "AllowButError" -> ResolvedStatus("NoCheckButError", st.data, st.code)
      [] OTHER -> st

\* ------------------------------------------------------------ event sink

\* The threshold exec passes to LFFResolveEvent::new.
threshold == 3

\* LFFResolveEvent::new, without the count_map.
LFFResolveEvent_new(t, output_allowed_log, output_nochecked_log) ==
    [threshold |-> t, output_allowed_log |-> output_allowed_log,
     output_nochecked_log |-> output_nochecked_log]

\* LFFResolveEvent::code: the hash of req_qtype and req_name, kept as the
\* pair that is hashed.
LFFResolveEvent_code(d) == << d.req_qtype, d.req_name >>

\* The match of resolved on the status: ignore.
resolved_ignore(self, st) ==
    CASE st.variant \in { "Allow", "AllowButError" } -> ~self.output_allowed_log
      [] st.variant \in { "NoCheck", "NoCheckButError" } -> ~self.output_nochecked_log
      [] OTHER -> FALSE

\* count_map.entry(code).or_insert(0)
or_insert_0(map, code) == IF code \in DOMAIN map THEN map[code] ELSE 0

\* tracing::info!("{status}") and the tracing::warn! of resolved.
Info(st) == [level |-> "INFO", status |-> st]

Warn(st) == [level |-> "WARN", status |-> st]

\* The body of resolved under the write lock, count being the entry of code:
\* the counts stay far below usize::MAX, where saturating_add is the sum.
resolved_counting(self, map, log, st, code, count) ==
    [count_map |-> (code :> (count + 1)) @@ map,
     logged |-> log \o (IF count < self.threshold THEN << Info(st) >> ELSE << >>)
                    \o (IF count + 1 = self.threshold THEN << Warn(st) >> ELSE << >>)]

\* A faulty resolved: the count is taken before ignore is looked at.
LFFResolveEvent_resolved_counting_ignored(self, map, log, st, write_ok) ==
    IF resolved_ignore(self, st)
    THEN [count_map |-> (LFFResolveEvent_code(st.data)
                           :> (or_insert_0(map, LFFResolveEvent_code(st.data)) + 1)) @@ map,
          logged |-> log]
    ELSE resolved_counting(self, map, log, st, LFFResolveEvent_code(st.data),
                           or_insert_0(map, LFFResolveEvent_code(st.data)))

\* LFFResolveEvent::resolved(status): the count_map and the log afterwards;
\* write_ok is whether count_map.write() returned the guard.
LFFResolveEvent_resolved(self, map, log, st, write_ok) ==
    IF resolved_ignore(self, st) THEN [count_map |-> map, logged |-> log]
    ELSE IF write_ok
    THEN resolved_counting(self, map, log, st, LFFResolveEvent_code(st.data),
                           or_insert_0(map, LFFResolveEvent_code(st.data)))
    ELSE [count_map |-> map, logged |-> Append(log, Info(st))]

\* ------------------------------------------------------------ upstream lookup

\* What the network does to one exchange of dns::lookup: io is "bind_error"
\* (the local socket cannot be bound, nothing is sent), "recv_error" (the
\* query is sent, no reply arrives) or "ok" (payload is the reply datagram).
NetOutcome(io, payload) == [io |-> io, payload |-> payload]

\* dns::lookup returning Err(e); c tells whether the query had left.
lookup_fail(e, c) == [err |-> e, contacted |-> c, raw |-> <<>>, msg |-> Message_new]

\* The bytes dns::lookup returns next to the decoded message: the raw
\* response bytes, that is the datagram received from the upstream.
lookup_raw(net) == net.payload

\* dns::lookup(dns_server, id, name, qtype, class) under the outcome net:
\* err as for the codec ("Io" for a socket error), contacted tells whether the
\* query left for the upstream, raw is the reply datagram and msg its decoding.
dns_lookup(id, name, qtype, class, net) ==
    IF net.io = "bind_error" THEN lookup_fail("Io", FALSE)
    ELSE With(Message_write([Message_new EXCEPT
                                !.header.id = id,
                                !.header.questions = 1,
                                !.header.recursion_desired = TRUE,
                                !.questions = << Question_new(name, qtype, class) >>],
                            BytePacketBuffer_new), LAMBDA w :
         IF ~IsOk(w) THEN lookup_fail(w.err, FALSE)
         ELSE IF net.io = "recv_error" THEN lookup_fail("Io", TRUE)
         ELSE With(Message_read(recv_into(net.payload)), LAMBDA r :
              IF ~IsOk(r) THEN lookup_fail(r.err, TRUE)
              ELSE [err |-> "none", contacted |-> TRUE, raw |-> lookup_raw(net),
                    msg |-> r.v]))

\* ------------------------------------------------------------ server (Runner)

\* The string a record's rdata is logged as in Runner::lookup.
rdata_string(d) ==
    CASE d.tag = "A" -> d.addr
      [] d.tag = "AAAA" -> d.addr
      [] d.tag = "CNAME" -> d.name
      [] d.tag = "SRV" -> <<d.priority, d.weight, d.port>> \o d.name
      [] d.tag = "Unknown" -> <<>>

rdata_key(d) ==
    CASE d.tag = "A" -> QueryType_from(1)
      [] d.tag = "AAAA" -> QueryType_from(28)
      [] d.tag = "CNAME" -> QueryType_from(5)
      [] d.tag = "SRV" -> QueryType_from(33)
      [] d.tag = "Unknown" -> [kind |-> "UNKNOWN", num |-> QueryType_u16(d.qtype)]

RECURSIVE insert_answers(_, _)
\* for rec in result.answers { res_data.insert(..) }
insert_answers(res_data, answers) ==
    IF answers = <<>> THEN res_data
    ELSE insert_answers(
            ResolvedData_insert(res_data, rdata_key(Head(answers).rdata),
                                rdata_string(Head(answers).rdata)),
            Tail(answers))

\* A faulty make_error_resp_msg: resp.header.rescode is not set.
make_error_resp_msg_no_rescode(req, result_code) ==
    Then(Message_write([Message_new EXCEPT
                           !.header.id = req.header.id,
                           !.header.recursion_desired = req.header.recursion_desired,
                           !.header.recursion_available = req.header.recursion_available,
                           !.header.response = req.header.response],
                       BytePacketBuffer_new), LAMBDA w :
    Ok(w.b, [resp |-> w.v, resp_buffer |-> w.b]))

\* A faulty make_error_resp_msg: recursion_desired is not mirrored.
make_error_resp_msg_no_rd(req, result_code) ==
    Then(Message_write([Message_new EXCEPT
                           !.header.id = req.header.id,
                           !.header.recursion_available = req.header.recursion_available,
                           !.header.response = req.header.response,
                           !.header.rescode = result_code],
                       BytePacketBuffer_new), LAMBDA w :
    Ok(w.b, [resp |-> w.v, resp_buffer |-> w.b]))

\* Runner::make_error_resp_msg(req, result_code): v is [resp, resp_buffer].
make_error_resp_msg(req, result_code) ==
    Then(Message_write([Message_new EXCEPT
                           !.header.id = req.header.id,
                           !.header.recursion_desired = req.header.recursion_desired,
                           !.header.recursion_available = req.header.recursion_available,
                           !.header.response = req.header.response,
                           !.header.rescode = result_code],
                       BytePacketBuffer_new), LAMBDA w :
    Ok(w.b, [resp |-> w.v, resp_buffer |-> w.b]))

\* A faulty Runner::lookup: the result code of the reply is not looked at.
Runner_lookup_ignoring_rescode(id, question, raw, net) ==
    With(ResolvedData_new(question.qtype, question.name), LAMBDA res_data :
    With(dns_lookup(id, question.name, question.qtype, question.class, net), LAMBDA l :
    IF l.err = "panic"
    THEN [err |-> "panic", contacted |-> l.contacted, raw |-> raw,
          status |-> ResolvedStatus("", res_data, "")]
    ELSE IF l.err = "none"
    THEN [err |-> "none", contacted |-> TRUE, raw |-> l.raw,
          status |-> ResolvedStatus("Allow", insert_answers(res_data, l.msg.answers), "")]
    ELSE [err |-> "none", contacted |-> l.contacted, raw |-> raw,
          status |-> ResolvedStatus("AllowButError", res_data, "ServFail")]))

\* A faulty Runner::lookup: raw gets the decoded message written out again
\* instead of resp_buf.
Runner_lookup_reencoding(id, question, raw, net) ==
    With(ResolvedData_new(question.qtype, question.name), LAMBDA res_data :
    With(dns_lookup(id, question.name, question.qtype, question.class, net), LAMBDA l :
    IF l.err = "panic"
    THEN [err |-> "panic", contacted |-> l.contacted, raw |-> raw,
          status |-> ResolvedStatus("", res_data, "")]
    ELSE IF l.err = "none"
    THEN With(insert_answers(res_data, l.msg.answers), LAMBDA data :
         With(Message_write(l.msg, BytePacketBuffer_new), LAMBDA w :
         [err |-> "none", contacted |-> TRUE,
          raw |-> IF IsOk(w) THEN SubSeq(w.b.buf, 1, w.b.pos) ELSE <<>>,
          status |-> IF l.msg.header.rescode = "NoError"
                     THEN ResolvedStatus("Allow", data, "")
                     ELSE ResolvedStatus("AllowButError", data, l.msg.header.rescode)]))
    ELSE [err |-> "none", contacted |-> l.contacted, raw |-> raw,
          status |-> ResolvedStatus("AllowButError", res_data, "ServFail")]))

\* Runner::lookup(id, question, raw) under the outcome net: err is "panic"
\* when decoding the reply panics and "none" otherwise (the function returns
\* Ok on every other path); raw is the caller's vector afterwards.
Runner_lookup(id, question, raw, net) ==
    With(ResolvedData_new(question.qtype, question.name), LAMBDA res_data :
    With(dns_lookup(id, question.name, question.qtype, question.class, net), LAMBDA l :
    IF l.err = "panic"
    THEN [err |-> "panic", contacted |-> l.contacted, raw |-> raw,
          status |-> ResolvedStatus("", res_data, "")]
    ELSE IF l.err = "none"
    THEN With(insert_answers(res_data, l.msg.answers), LAMBDA data :
         [err |-> "none", contacted |-> TRUE, raw |-> l.raw,
          status |-> IF l.msg.header.rescode = "NoError"
                     THEN ResolvedStatus("Allow", data, "")
                     ELSE ResolvedStatus("AllowButError", data, l.msg.header.rescode)])
    ELSE [err |-> "none", contacted |-> l.contacted, raw |-> raw,
          status |-> ResolvedStatus("AllowButError", res_data, "ServFail")]))

\* let (resp, resp_buffer) = self.make_error_resp_msg(&req, code)?;
\* raw_buf.extend_from_slice(resp_buffer.get_all()?): v is the response and
\* the bytes appended to raw_buf.
error_response(r, result_code) ==
    Then(make_error_resp_msg(r, result_code), LAMBDA e :
    Then(get_all(e.v.resp_buffer), LAMBDA all :
    Ok(all.b, [resp |-> e.v.resp, bytes |-> all.v])))

\* A faulty Runner::check: a name is let through when the lock fails.
Runner_check_failing_open(cl, name, guard) ==
    IF guard THEN CompositeCheckList_check(cl, name) ELSE "Allow"

\* Runner::check(name): the classification under the read lock; guard tells
\* whether self.checklist.read() returned the guard (Ok) or failed (the lock is
\* poisoned).
Runner_check(cl, name, guard) ==
    IF guard THEN CompositeCheckList_check(cl, name) ELSE "Deny"

\* ------------------------------------------------------------ ipctl (on_ipctl)

Space == 32

Newline == 10

\* The verbs and the other words of the ipctl lines, as strings.
Str_log == <<108, 111, 103>>

Str_allow == <<97, 108, 108, 111, 119>>

Str_deny == <<100, 101, 110, 121>>

Str_save == <<115, 97, 118, 101>>

Str_list == <<108, 105, 115, 116>>

RECURSIVE split_space(_, _)
\* command.split(' '): cur is the word being collected.
split_space(s, cur) ==
    IF s = <<>> THEN <<cur>>
    ELSE IF Head(s) = Space THEN <<cur>> \o split_space(Tail(s), <<>>)
    ELSE split_space(Tail(s), Append(cur, Head(s)))

\* tracing::Level::from_str: a level by its number 1..5 or by its name in any
\* case; <<>> when the string is neither.  The value is the level as Display
\* prints it.
Level_from_str(s) ==
    CASE s = <<49>> \/ to_lowercase(s) = <<101, 114, 114, 111, 114>> -> <<69, 82, 82, 79, 82>>
      [] s = <<50>> \/ to_lowercase(s) = <<119, 97, 114, 110>> -> <<87, 65, 82, 78>>
      [] s = <<51>> \/ to_lowercase(s) = <<105, 110, 102, 111>> -> <<73, 78, 70, 79>>
      [] s = <<52>> \/ to_lowercase(s) = <<100, 101, 98, 117, 103>> -> <<68, 69, 66, 85, 71>>
      [] s = <<53>> \/ to_lowercase(s) = <<116, 114, 97, 99, 101>> -> <<84, 82, 65, 67, 69>>
      [] OTHER -> <<>>

\* A reply of on_ipctl: the format string and the value of its one argument
\* (<<>> when it has none).
Reply(fmt, arg) == [fmt |-> fmt, arg |-> arg]

RECURSIVE StrLess(_, _)
\* The order of str (byte-wise lexicographic), strict.
StrLess(x, y) ==
    IF y = <<>> THEN FALSE
    ELSE IF x = <<>> THEN TRUE
    ELSE IF Head(x) # Head(y) THEN Head(x) < Head(y)
    ELSE StrLess(Tail(x), Tail(y))

\* The sequences that hold every element of S once.
Orders(S) ==
    { o \in [1..Cardinality(S) -> S] : \A i, j \in 1..Cardinality(S) : i # j => o[i] # o[j] }

\* keys().collect() followed by sort().
sorted_keys(S) ==
    CHOOSE o \in Orders(S) : \A i, j \in 1..Cardinality(S) : i < j => StrLess(o[i], o[j])

\* A faulty save: a list without path is written like one with a path.
CheckList_save_without_path(list, io) ==
    IF io
    THEN [err |-> "none", written |-> TRUE,
          lines |-> sorted_keys(list.names) \o sorted_keys(list.wnames)]
    ELSE [err |-> "Io", written |-> FALSE, lines |-> <<>>]

\* InMemoryAllowList::save: err as the Error variant ("none" for Ok); lines
\* is what was written to the file at self.path, one line per element.
\* io tells whether creating and writing the file succeeds.
CheckList_save(list, io) ==
    IF list.path # "none"
    THEN IF io
         THEN [err |-> "none", written |-> TRUE,
               lines |-> sorted_keys(list.names) \o sorted_keys(list.wnames)]
         ELSE [err |-> "Io", written |-> FALSE, lines |-> <<>>]
    ELSE [err |-> "SaveButInMemory", written |-> FALSE, lines |-> <<>>]

\* InMemoryAllowList::iter: the orders in which the iterator may yield the
\* entries, the exact names (in the order of the HashMap) before the patterns.
CheckList_iter(list) ==
    { n \o w : n \in Orders(list.names), w \in Orders(list.wnames) }

RECURSIVE join(_, _)
\* names.join(sep)
join(names, sep) ==
    IF names = <<>> THEN <<>>
    ELSE IF Len(names) = 1 THEN names[1]
    ELSE names[1] \o sep \o join(Tail(names), sep)

\* What on_ipctl leaves behind: the reply, the shared filter, the log level
\* and the allowlist file (saved: whether save has written it, lines: what).
IpctlResult(reply, cl, level, file) ==
    [reply |-> reply, checklist |-> cl, loglevel |-> level, file |-> file]

\* The "allow" arm once the write lock is asked for: guard tells whether
\* checklist.write() returned the guard.
ipctl_allow(fqdn, cl, guard, level, file) ==
    IF guard
    THEN With(CheckList_add(cl.allowlist, fqdn), LAMBDA a :
         IpctlResult(IF a.n > 0 THEN Reply("Add {fqdn} to AllowList", fqdn)
                     ELSE Reply("{fqdn} is already in AllowList", fqdn),
                     [cl EXCEPT !.allowlist = a.list], level, file))
    ELSE IpctlResult(Reply("Failed to add {fqdn} to AllowList", fqdn), cl, level, file)

\* A faulty "deny" arm: the fqdn is also added to the denylist.
ipctl_deny_into_denylist(fqdn, cl, guard, level, file) ==
    IF guard
    THEN With(CheckList_delete(cl.allowlist, fqdn), LAMBDA a :
         IpctlResult(IF a.n > 0 THEN Reply("Remove {fqdn} from AllowList", fqdn)
                     ELSE Reply("{fqdn} is not in AllowList", fqdn),
                     [cl EXCEPT !.allowlist = a.list,
                                !.denylist = CheckList_add(@, fqdn).list], level, file))
    ELSE IpctlResult(Reply("Failed to add {fqdn} to AllowList", fqdn), cl, level, file)

\* The "deny" arm.
ipctl_deny(fqdn, cl, guard, level, file) ==
    IF guard
    THEN With(CheckList_delete(cl.allowlist, fqdn), LAMBDA a :
         IpctlResult(IF a.n > 0 THEN Reply("Remove {fqdn} from AllowList", fqdn)
                     ELSE Reply("{fqdn} is not in AllowList", fqdn),
                     [cl EXCEPT !.allowlist = a.list], level, file))
    ELSE IpctlResult(Reply("Failed to add {fqdn} to AllowList", fqdn), cl, level, file)

\* The "log" arm; reload_handle.modify succeeds.
ipctl_log(word, cl, level, file) ==
    IF Level_from_str(word) # <<>>
    THEN IpctlResult(Reply("Log level is changed to {level}", Level_from_str(word)),
                     cl, Level_from_str(word), file)
    ELSE IpctlResult(Reply("Failed to convert {} to log level", word), cl, level, file)

\* The "save" arm under the read lock.
ipctl_save(cl, guard, level, file, io) ==
    IF guard
    THEN With(CheckList_save(cl.allowlist, io), LAMBDA sv :
         IF sv.err = "none"
         THEN IpctlResult(Reply("AllowList is saved", <<>>), cl, level,
                          [saved |-> TRUE, lines |-> sv.lines])
         ELSE IpctlResult(Reply("Failed to save allowlist", <<>>), cl, level, file))
    ELSE IpctlResult(Reply("Failed to save allowlist", <<>>), cl, level, file)

\* The "list" arm under the read lock, the iterator yielding the entries in
\* the order `order`.
ipctl_list(order, cl, guard, level, file) ==
    IF guard
    THEN IpctlResult(Reply("{}", join(order, <<Newline>>)), cl, level, file)
    ELSE IpctlResult(Reply("Failed to get allowlist", <<>>), cl, level, file)

\* inv(): the reply to a line that is no command.
ipctl_inv(command, cl, level, file) ==
    IpctlResult(Reply("Invalid command: {command}", command), cl, level, file)

\* A faulty verb: the case of the first word is kept.
ipctl_verb_as_typed(command) == split_space(command, <<>>)[1]

\* The verb on_ipctl dispatches on: splitted[0].to_lowercase().
ipctl_verb(command) == to_lowercase(split_space(command, <<>>)[1])

\* A faulty on_ipctl: a verb without argument is handled with the empty
\* string for its argument.
on_ipctl_without_length_check(command, cl, guard, level, file, io) ==
    With(split_space(command, <<>>) \o << <<>> >>, LAMBDA splitted :
    CASE ipctl_verb(command) = Str_log -> ipctl_log(splitted[2], cl, level, file)
      [] ipctl_verb(command) = Str_allow ->
            ipctl_allow(splitted[2], cl, guard, level, file)
      [] ipctl_verb(command) = Str_deny ->
            ipctl_deny(splitted[2], cl, guard, level, file)
      [] ipctl_verb(command) = Str_save -> ipctl_save(cl, guard, level, file, io)
      [] OTHER -> ipctl_inv(command, cl, level, file))

\* on_ipctl(command, reload_handle, checklist) for every verb but "list":
\* guard is the result of asking for the lock, io that of writing the file.
on_ipctl(command, cl, guard, level, file, io) ==
    With(split_space(command, <<>>), LAMBDA splitted :
    CASE ipctl_verb(command) = Str_log ->
            IF Len(splitted) < 2 THEN ipctl_inv(command, cl, level, file)
            ELSE ipctl_log(splitted[2], cl, level, file)
      [] ipctl_verb(command) = Str_allow ->
            IF Len(splitted) < 2 THEN ipctl_inv(command, cl, level, file)
            ELSE ipctl_allow(splitted[2], cl, guard, level, file)
      [] ipctl_verb(command) = Str_deny ->
            IF Len(splitted) < 2 THEN ipctl_inv(command, cl, level, file)
            ELSE ipctl_deny(splitted[2], cl, guard, level, file)
      [] ipctl_verb(command) = Str_save -> ipctl_save(cl, guard, level, file, io)
      [] OTHER -> ipctl_inv(command, cl, level, file))

\* ------------------------------------------------------------ inputs of the model

U16(v) == << v \div 256, v % 256 >>

RECURSIVE Flatten(_)
Flatten(ss) == IF ss = <<>> THEN <<>> ELSE Head(ss) \o Flatten(Tail(ss))

\* The 12 bytes of a header on the wire: id, the two flag bytes, four counts.
WireHeader(id, a, b, qd, an, ns, ar) ==
    U16(id) \o <<a, b>> \o U16(qd) \o U16(an) \o U16(ns) \o U16(ar)

\* An uncompressed name on the wire, from its labels.
WireName(labels) ==
    Flatten([i \in 1..Len(labels) |-> <<Len(labels[i])>> \o labels[i]]) \o <<0>>

WireQuestion(q) == WireName(q.labels) \o U16(q.qtype) \o U16(1)

\* "a.b", "c.b", "b" and the pattern "*.b" as strings.
Name_a_b == <<97, Dot, 98>>

Name_c_b == <<99, Dot, 98>>

Name_b == <<98>>

Pattern_star_b == <<Star, Dot, 98>>

\* The names clients ask for, as labels: a.b, C.b (upper case on the wire), b.
ClientNames == { <<<<97>>, <<98>>>>, <<<<67>>, <<98>>>>, <<<<98>>>> }

\* A (1), AAAA (28) and MX (15).
ClientQtypes == {1, 28, 15}

ClientQuestions == [labels : ClientNames, qtype : ClientQtypes]

\* Request headers: id and the two flag bytes.  The second one has qr, rd
\* (a = 0x81) and ra (b = 0x80) set.
ClientHeaders == { [id |-> 1, a |-> 0, b |-> 0], [id |-> 43981, a |-> 129, b |-> 128] }

SeqsUpTo(S, n) == UNION { [1..k -> S] : k \in 0..n }

\* The questions that precede the last one in a request of several.
LeadingQuestions ==
    { [labels |-> <<<<97>>, <<98>>>>, qtype |-> 1], [labels |-> <<<<98>>>>, qtype |-> 15] }

\* A question section of two: the A records of a.b, then the MX records of b.
TwoQuestions ==
    << [labels |-> <<<<97>>, <<98>>>>, qtype |-> 1], [labels |-> <<<<98>>>>, qtype |-> 15] >>

\* The question sections of the requests: none, up to MaxQuestions
\* questions, or the section of two.
QuestionSections ==
    { <<>>, TwoQuestions }
    \cup { Append(pre, q) : pre \in SeqsUpTo(LeadingQuestions, MaxQuestions - 1),
                            q \in ClientQuestions }

\* Well-formed requests: a header whose question count is the number of
\* questions that follow.
GoodDatagrams ==
    { WireHeader(h.id, h.a, h.b, Len(qs), 0, 0, 0)
        \o Flatten([i \in 1..Len(qs) |-> WireQuestion(qs[i])]) :
      h \in ClientHeaders, qs \in QuestionSections }

Zeros(n) == [i \in 1..n |-> 0]

\* Requests the decoder stumbles on: a name that is a compression pointer to
\* offset 512 (0xC2 0x00); a name that is a pointer to itself (0xC0 0x0C); a
\* name of three labels of 191 bytes, the third of which runs past the end of
\* the buffer; a 3-byte datagram.
BadDatagrams ==
    { WireHeader(2, 1, 0, 1, 0, 0, 0) \o <<194, 0>> \o U16(1) \o U16(1),
      WireHeader(3, 1, 0, 1, 0, 0, 0) \o <<192, 12>> \o U16(1) \o U16(1),
      WireHeader(4, 1, 0, 1, 0, 0, 0) \o <<191>> \o Zeros(191) \o <<191>>
        \o Zeros(191) \o <<191>>,
      <<0, 5, 1>> }

Datagrams == GoodDatagrams \cup BadDatagrams

\* Answer records an upstream reply may carry, on the wire: an A record
\* 1.2.3.4 and a CNAME record pointing at "b", both for a.b.
WireAnswers ==
    { WireName(<<<<97>>, <<98>>>>) \o U16(1) \o U16(1) \o U16(0) \o U16(60) \o U16(4)
        \o <<1, 2, 3, 4>>,
      WireName(<<<<97>>, <<98>>>>) \o U16(5) \o U16(1) \o U16(0) \o U16(60) \o U16(3)
        \o WireName(<<<<98>>>>) }

\* Result codes of upstream replies: NoError, ServFail, NXDomain and the
\* unassigned 13.
UpstreamRcodes == {0, 2, 3, 13}

\* The replies of the upstream to the query with this id: a response header
\* (qr, rd; ra and the rcode) and up to MaxAnswers answers; one reply whose
\* answer name is a pointer to itself, one whose answer name is a pointer to
\* offset 512.
UpstreamReplies(id) ==
    { WireHeader(id, 129, 128 + rc, 0, Len(as), 0, 0) \o Flatten(as) :
      rc \in UpstreamRcodes, as \in SeqsUpTo(WireAnswers, MaxAnswers) }
    \cup { WireHeader(id, 129, 128, 0, 1, 0, 0) \o <<192, 12>>,
           WireHeader(id, 129, 128, 0, 1, 0, 0) \o <<194, 0>> }

NetOutcomes(id) ==
    { NetOutcome("bind_error", <<>>), NetOutcome("recv_error", <<>>) }
    \cup { NetOutcome("ok", p) : p \in UpstreamReplies(id) }

\* The lines a list file holds at startup.
ListEntries == { Name_a_b, Pattern_star_b }

\* The arguments of the ipctl commands allow and deny.
IpctlArgs == { Name_a_b, Pattern_star_b }

\* get_checklist: each list is loaded from its file when the configuration
\* names one and is an empty in-memory list otherwise.
StartLists(path) ==
    { InMemoryAllowList_new }
    \cup { InMemoryAllowList_from_file(path, lines) : lines \in SUBSET ListEntries }

\* ------------------------------------------------------------ state

VARIABLES
    checklist,  \* the shared CompositeCheckList (Runner.checklist)
    lock,       \* who holds a read guard of the RwLock around checklist:
                \* "worker" (Runner::check) and "list" (the list command).  A
                \* write guard is taken and dropped within one step of a
                \* handler, with no read guard out.
    poisoned,   \* the RwLock is poisoned: read() and write() return Err
    pc,         \* where the UDP worker is: "recv" (in on_recv, blocked in
                \* recv_from), "check" (about to ask for the read lock),
                \* "classify" (in Runner::check, past read()), "lookup" (in
                \* the upstream exchange), "send" (about to send_to the
                \* client), "done" (on_recv has returned to the loop of
                \* serve, which has reported its error), "panicked" (serve
                \* has panicked)
    datagram,   \* the payload of the datagram being handled
    req,        \* the decoded request, without the popped question
    question,   \* <<q>> for the popped question, <<>> when there is none
    status,     \* the CheckStatus of this datagram, "none" if not classified
    net,        \* <<outcome>> of this datagram's upstream exchange, or <<>>
    queries,    \* the queries this datagram made leave for the upstream
    raw_buf,    \* the bytes on_recv is going to send
    sent,       \* the datagrams sent to the client for this datagram
    events,     \* the events emitted for this datagram
    listing,    \* <<line>> while the handler of the list command `line` is
                \* in its loop over allowlist.iter(), <<>> when none is
    command,    \* the ipctl line last taken up by a handler that is followed
    reply,      \* the reply to it
    loglevel,   \* the level of the reloadable log filter
    file,       \* the allowlist file: whether save has written it, and the
                \* lines it wrote
    remaining,  \* the entries the iterator of the list handler has yet to yield
    listed,     \* names, the vector the list handler collects
    buffer,     \* a BytePacketBuffer the operations of the codec are applied to
    applied,    \* the last operation applied to it, its arguments and result
    nops,       \* the number of operations applied to it
    sink,       \* the LFFResolveEvent: threshold and the two output flags
    count_map,  \* LFFResolveEvent.count_map: the count of each fingerprint
    logged      \* the lines LFFResolveEvent has written to the log

worker_vars == << pc, datagram, req, question, status, net, queries, raw_buf,
                  sent, events >>

ctl_vars == << listing, command, reply, loglevel, file, remaining, listed >>

unit_vars == << buffer, applied, nops, sink, count_map, logged >>

vars == << checklist, lock, poisoned, worker_vars, ctl_vars, unit_vars >>

NoStatus == ResolvedStatus("", ResolvedData_new(QueryType_from(0), <<>>), "")

\* event.resolved(status)
Event_resolved(st) ==
    [kind |-> "resolved", status |-> st, text |-> "", id |-> 0, code |-> ""]

\* event.error(message): text is the dns::Error of format!("{e}"), the
\* message of Runner::check, or "" for the message "{id}: {rescode}" of a
\* request without question.
Event_error(text, id, code) ==
    [kind |-> "error", status |-> NoStatus, text |-> text, id |-> id, code |-> code]

\* The locals of on_recv as it is entered, and nothing observed yet.
Fresh ==
    /\ datagram = <<>>
    /\ req = Message_new
    /\ question = <<>>
    /\ status = "none"
    /\ net = <<>>
    /\ queries = <<>>
    /\ raw_buf = <<>>
    /\ sent = <<>>
    /\ events = <<>>

NoReply == Reply("", <<>>)

\* The level the log filter starts with: INFO.
StartLevel == <<73, 78, 70, 79>>

\* No ipctl line handled yet, the allowlist file as it was found.
CtlFresh ==
    /\ listing = <<>>
    /\ command = <<>>
    /\ reply = NoReply
    /\ loglevel = StartLevel
    /\ file = [saved |-> FALSE, lines |-> <<>>]
    /\ remaining = <<>>
    /\ listed = <<>>

\* No operation applied yet.
NoneApplied == [op |-> "none", from |-> 0, arg |-> <<>>, err |-> "none", v |-> <<>>]

\* A new buffer, and the event sink as LFFResolveEvent::new leaves it under
\* the default configuration.
UnitFresh ==
    /\ buffer = BytePacketBuffer_new
    /\ applied = NoneApplied
    /\ nops = 0
    /\ sink = LFFResolveEvent_new(threshold, FALSE, FALSE)
    /\ count_map = << >>
    /\ logged = << >>

\* exec: the lists are loaded, the server and the ipctl handler are set up.
Init ==
    /\ checklist \in { CompositeCheckList_new(al, dl) :
                         al \in StartLists("allowlist"), dl \in StartLists("denylist") }
    /\ lock = {}
    /\ poisoned = FALSE
    /\ pc = "recv"
    /\ Fresh
    /\ CtlFresh
    /\ UnitFresh

\* ------------------------------------------------------------ UDP worker

IsAddressQuery(q) == q.qtype.kind = "A" \/ q.qtype.kind = "AAAA"

\* on_recv returns Err(e) and serve reports it: event.error(format!("{e}")).
Fail(e) ==
    /\ pc' = "done"
    /\ events' = Append(events, Event_error(e, 0, ""))

\* The arm of on_recv for a request r without question, e being its FormErr
\* response: the response is queued and event.error("{id}: {rescode}") called.
NoQuestion(r, e) ==
    /\ req' = r
    /\ UNCHANGED question
    /\ IF ~IsOk(e)
       THEN Fail(e.err) /\ UNCHANGED raw_buf
       ELSE /\ pc' = "send"
            /\ raw_buf' = raw_buf \o e.v.bytes
            /\ events' = Append(events,
                            Event_error("", r.header.id, e.v.resp.header.rescode))

\* on_recv after Message::read returned m: `?`, then questions.pop().
Decoded(m) ==
    IF m.err = "panic"
    THEN /\ pc' = "panicked"
         /\ UNCHANGED << req, question, raw_buf, events >>
    ELSE IF ~IsOk(m)
    THEN /\ Fail(m.err)
         /\ UNCHANGED << req, question, raw_buf >>
    ELSE IF Len(m.v.questions) > 0
    THEN /\ pc' = IF IsAddressQuery(m.v.questions[Len(m.v.questions)])
                  THEN "check" ELSE "lookup"
         /\ req' = [m.v EXCEPT !.questions = SubSeq(@, 1, Len(@) - 1)]
         /\ question' = << m.v.questions[Len(m.v.questions)] >>
         /\ UNCHANGED << raw_buf, events >>
    ELSE NoQuestion(m.v, error_response(m.v, "FormErr"))

\* on_recv up to the classification: recv_from, Message::read, questions.pop()
\* and, for a request without question, the FormErr response.  A panic ends
\* the thread.
Recv(payload) ==
    /\ pc = "recv"
    /\ datagram' = payload
    /\ Decoded(Message_read(recv_into(payload)))
    /\ UNCHANGED << checklist, lock, poisoned, unit_vars, status, net, queries, sent, ctl_vars >>

\* A faulty A/AAAA arm: no event for a name that is in neither list.
Classified_silent(q, st, e) ==
    /\ status' = st
    /\ IF st = "Allow"
       THEN /\ pc' = "lookup"
            /\ UNCHANGED << raw_buf, events >>
       ELSE IF ~IsOk(e)
       THEN Fail(e.err) /\ UNCHANGED raw_buf
       ELSE /\ pc' = "send"
            /\ raw_buf' = raw_buf \o e.v.bytes
            /\ UNCHANGED events

\* The A/AAAA arm of on_recv once self.check(name) returned st, e being the
\* NXDomain response made for Deny and NotFound.
Classified(q, st, e) ==
    /\ status' = st
    /\ IF st = "Allow"
       THEN /\ pc' = "lookup"
            /\ UNCHANGED << raw_buf, events >>
       ELSE IF ~IsOk(e)
       THEN Fail(e.err) /\ UNCHANGED raw_buf
       ELSE /\ pc' = "send"
            /\ raw_buf' = raw_buf \o e.v.bytes
            /\ events' = IF st = "NotFound"
                         THEN Append(events, Event_resolved(
                                 ResolvedStatus("Deny",
                                                ResolvedData_new(q.qtype, q.name),
                                                e.v.resp.header.rescode)))
                         ELSE events

\* Runner::check up to self.checklist.read(): the worker gets a read guard,
\* or, the lock being poisoned, calls event.error.
Check ==
    /\ pc = "check"
    /\ pc' = "classify"
    /\ lock' = IF poisoned THEN lock ELSE lock \cup {"worker"}
    /\ events' = IF poisoned
                 THEN Append(events,
                        Event_error("Failed to get allow list(read lock error)", 0, ""))
                 ELSE events
    /\ UNCHANGED << checklist, poisoned, unit_vars, datagram, req, question, status, net,
                    queries, raw_buf, sent, ctl_vars >>

\* A faulty Classify: the read guard is not dropped.
Classify_holding ==
    /\ pc = "classify"
    /\ Classified(question[1],
                  Runner_check(checklist, question[1].name, "worker" \in lock),
                  error_response(req, "NXDomain"))
    /\ UNCHANGED << checklist, lock, poisoned, unit_vars, datagram, req, question, net,
                    queries, sent, ctl_vars >>

\* The rest of Runner::check, which drops the guard as it returns, and the
\* match of the A/AAAA arm of on_recv up to the lookup: for Deny and NotFound,
\* the NXDomain response.
Classify ==
    /\ pc = "classify"
    /\ lock' = lock \ {"worker"}
    /\ Classified(question[1],
                  Runner_check(checklist, question[1].name, "worker" \in lock),
                  error_response(req, "NXDomain"))
    /\ UNCHANGED << checklist, poisoned, unit_vars, datagram, req, question, net, queries,
                    sent, ctl_vars >>

\* on_recv once self.lookup returned l for the question q.
LookedUp(q, l) ==
    /\ queries' = IF l.contacted
                  THEN Append(queries, [id |-> req.header.id, question |-> q])
                  ELSE queries
    /\ IF l.err = "panic"
       THEN /\ pc' = "panicked"
            /\ UNCHANGED << raw_buf, events >>
       ELSE /\ pc' = "send"
            /\ raw_buf' = l.raw
            /\ events' = Append(events, Event_resolved(
                             IF IsAddressQuery(q) THEN l.status
                             ELSE into_nocheck(l.status)))

\* self.lookup(req.header.id, question, &mut raw_buf) and the resolved event,
\* for an allowed A/AAAA query and for a query of another type.
Lookup(outcome) ==
    /\ pc = "lookup"
    /\ net' = << outcome >>
    /\ LookedUp(question[1],
                Runner_lookup(req.header.id, question[1], raw_buf, outcome))
    /\ UNCHANGED << checklist, lock, poisoned, unit_vars, datagram, req, question, status,
                    sent, ctl_vars >>

\* socket.send_to(&raw_buf, src); on_recv returns Ok(()).
Send ==
    /\ pc = "send"
    /\ sent' = Append(sent, raw_buf)
    /\ pc' = "done"
    /\ UNCHANGED << checklist, lock, poisoned, unit_vars, datagram, req, question, status,
                    net, queries, raw_buf, events, ctl_vars >>

\* The loop of serve enters on_recv again: its locals are new, and the
\* observations of the last datagram are dropped.
Loop ==
    /\ pc = "done"
    /\ pc' = "recv"
    /\ datagram' = <<>>
    /\ req' = Message_new
    /\ question' = <<>>
    /\ status' = "none"
    /\ net' = <<>>
    /\ queries' = <<>>
    /\ raw_buf' = <<>>
    /\ sent' = <<>>
    /\ events' = <<>>
    /\ UNCHANGED << checklist, lock, poisoned, unit_vars, ctl_vars >>

\* ------------------------------------------------------------ ipctl

\* The line "<verb> <word>".
Line(verb, word) == verb \o <<Space>> \o word

\* A handler can take the write lock when no read guard is out; with the
\* lock poisoned write() returns Err.
CanWrite == poisoned \/ lock = {}

\* A faulty IpctlAllow: the list is changed without the write lock.
IpctlAllow_unlocked(fqdn) ==
    /\ pc # "panicked"
    /\ checklist' = on_ipctl(Line(Str_allow, fqdn), checklist, ~poisoned,
                             loglevel, file, TRUE).checklist
    /\ UNCHANGED << lock, poisoned, unit_vars, worker_vars, ctl_vars >>

\* on_ipctl("allow <fqdn>") for a client that is not followed:
\* allowlist.add(fqdn) under the write lock.  serve runs on the main task of
\* the process (exec), so a panic in it ends the process and the ipctl
\* handler with it.
IpctlAllow(fqdn) ==
    /\ pc # "panicked"
    /\ CanWrite
    /\ checklist' = on_ipctl(Line(Str_allow, fqdn), checklist, ~poisoned,
                             loglevel, file, TRUE).checklist
    /\ UNCHANGED << lock, poisoned, unit_vars, worker_vars, ctl_vars >>

\* on_ipctl("deny <fqdn>") for a client that is not followed:
\* allowlist.delete(fqdn) under the write lock.
IpctlDeny(fqdn) ==
    /\ pc # "panicked"
    /\ CanWrite
    /\ checklist' = on_ipctl(Line(Str_deny, fqdn), checklist, ~poisoned,
                             loglevel, file, TRUE).checklist
    /\ UNCHANGED << lock, poisoned, unit_vars, worker_vars, ctl_vars >>

\* The lines the followed clients send: allow, ALLOW and deny with a name or
\* a pattern, save, list, log with a level, with a word that is none and with
\* the empty word, the verbs without argument, a line that starts with another
\* word, the empty line.
IpctlLines ==
    { Line(Str_allow, Name_a_b), Line(<<65, 76, 76, 79, 87>>, Name_a_b),
      Line(Str_allow, Pattern_star_b),
      Line(Str_deny, Name_a_b), Line(Str_deny, Pattern_star_b),
      Str_save, Str_list, Line(<<76, 105, 115, 116>>, Name_b),
      Line(Str_log, <<100, 101, 98, 117, 103>>), Line(Str_log, Name_b),
      Line(Str_log, <<>>),
      Str_log, Str_allow, Str_deny, Line(Name_b, Name_a_b), <<>> }

\* Whether the line takes the write lock: allow or deny with an argument.
TakesWriteLock(line) ==
    /\ ipctl_verb(line) \in {Str_allow, Str_deny}
    /\ Len(split_space(line, <<>>)) >= 2

\* The handler of the line returns r: the reply goes to the client.
Handled(line, r) ==
    /\ command' = line
    /\ reply' = r.reply
    /\ checklist' = r.checklist
    /\ loglevel' = r.loglevel
    /\ file' = r.file

\* on_ipctl(line) for every verb but list; io tells whether the file can be
\* written.
Ipctl(line, io) ==
    /\ pc # "panicked"
    /\ ipctl_verb(line) # Str_list
    /\ TakesWriteLock(line) => CanWrite
    /\ Handled(line, on_ipctl(line, checklist, ~poisoned, loglevel, file, io))
    /\ UNCHANGED << lock, poisoned, unit_vars, worker_vars, listing, remaining, listed >>

\* A faulty ListBegin: the entries are iterated without the read lock.
ListBegin_unlocked(line) ==
    /\ pc # "panicked"
    /\ ipctl_verb(line) = Str_list
    /\ listing = <<>>
    /\ listing' = << line >>
    /\ listed' = <<>>
    /\ \E order \in CheckList_iter(checklist.allowlist) : remaining' = order
    /\ UNCHANGED << checklist, lock, poisoned, unit_vars, worker_vars, command, reply,
                    loglevel, file >>

\* The "list" arm up to the loop: checklist.read(), allowlist.iter().  With
\* the lock poisoned the handler replies at once.
ListBegin(line) ==
    /\ pc # "panicked"
    /\ ipctl_verb(line) = Str_list
    /\ listing = <<>>
    /\ IF poisoned
       THEN /\ Handled(line, ipctl_list(<<>>, checklist, FALSE, loglevel, file))
            /\ UNCHANGED << lock, listing, remaining, listed >>
       ELSE /\ lock' = lock \cup {"list"}
            /\ listing' = << line >>
            /\ listed' = <<>>
            /\ \E order \in CheckList_iter(checklist.allowlist) : remaining' = order
            /\ UNCHANGED << checklist, command, reply, loglevel, file >>
    /\ UNCHANGED << poisoned, unit_vars, worker_vars >>

\* One turn of the loop: names.push(name).
ListNext ==
    /\ pc # "panicked"
    /\ listing # <<>>
    /\ remaining # <<>>
    /\ listed' = Append(listed, Head(remaining))
    /\ remaining' = Tail(remaining)
    /\ UNCHANGED << checklist, lock, poisoned, unit_vars, worker_vars, listing, command,
                    reply, loglevel, file >>

\* The iterator is exhausted: names.join("\n") is the reply of the arm that
\* got the guard, and the guard is dropped.
ListEnd ==
    /\ pc # "panicked"
    /\ listing # <<>>
    /\ remaining = <<>>
    /\ listing' = <<>>
    /\ lock' = lock \ {"list"}
    /\ Handled(listing[1], ipctl_list(listed, checklist, TRUE, loglevel, file))
    /\ UNCHANGED << poisoned, unit_vars, worker_vars, remaining, listed >>

\* The "save" arm up to File::create: checklist.read(), then save() has
\* created the file at the path of the allowlist, which is empty until the
\* BufWriter is flushed; remaining is what the BufWriter holds.  With the lock
\* poisoned, with an in-memory allowlist or when the file cannot be created
\* the handler replies at once.
SaveBegin(line, io) ==
    /\ pc # "panicked"
    /\ ipctl_verb(line) = Str_save
    /\ listing = <<>>
    /\ IF poisoned \/ checklist.allowlist.path = "none" \/ ~io
       THEN /\ Handled(line, ipctl_save(checklist, ~poisoned, loglevel, file, io))
            /\ UNCHANGED << lock, listing, remaining >>
       ELSE /\ lock' = lock \cup {"save"}
            /\ listing' = << line >>
            /\ remaining' = CheckList_save(checklist.allowlist, io).lines
            /\ file' = [saved |-> TRUE, lines |-> <<>>]
            /\ UNCHANGED << checklist, command, reply, loglevel >>
    /\ UNCHANGED << poisoned, unit_vars, worker_vars, listed >>

\* The rest of the "save" arm: w.flush() writes the lines, save returns, the
\* handler logs and drops the guard.
SaveEnd ==
    /\ pc # "panicked"
    /\ listing # <<>>
    /\ ipctl_verb(listing[1]) = Str_save
    /\ listing' = <<>>
    /\ remaining' = <<>>
    /\ lock' = lock \ {"save"}
    /\ Handled(listing[1], ipctl_save(checklist, TRUE, loglevel, file, TRUE))
    /\ UNCHANGED << poisoned, unit_vars, worker_vars, listed >>

\* ------------------------------------------------------------ CheckList

\* The pattern "a.*".
Pattern_a_star == <<97, Dot, Star>>

\* The strings add and delete are called with: a.b, the patterns *.b and a.*,
\* and two strings that carry a line terminator, "a\nb" and "b\r".
ListArgs ==
    { Name_a_b, Pattern_star_b, Pattern_a_star, <<97, LineFeed, 98>>,
      <<98, CarriageReturn>> }

\* The entry "a?.b".
Pattern_a_quest_b == <<97, Quest, Dot, 98>>

\* The entries with a wildcard that add is called with: a?.b, a.?, ??.b, ?.*
\* and *.b.
GlobArgs ==
    { Pattern_a_quest_b, <<97, Dot, Quest>>, <<Quest, Quest, Dot, 98>>,
      <<Quest, Dot, Star>>, Pattern_star_b }

\* A call on the allowlist returned r: the list is the one r holds, and
\* applied keeps the call and, as v[1], the count it returned.
Called(op, name, r) ==
    /\ checklist' = [checklist EXCEPT !.allowlist = r.list]
    /\ applied' = [op |-> op, from |-> 0, arg |-> name, err |-> "none",
                   v |-> << r.n >>]
    /\ UNCHANGED << lock, poisoned, worker_vars, ctl_vars, buffer, nops, sink,
                    count_map, logged >>

\* allowlist.add(name)
Add(name) == Called("add", name, CheckList_add(checklist.allowlist, name))

\* allowlist.delete(name)
Delete(name) == Called("delete", name, CheckList_delete(checklist.allowlist, name))

\* The file once save has returned sv.
Saved(sv) ==
    file' = IF sv.err = "none" THEN [saved |-> TRUE, lines |-> sv.lines] ELSE file

\* allowlist.save()
Save(io) ==
    /\ Saved(CheckList_save(checklist.allowlist, io))
    /\ UNCHANGED << checklist, lock, poisoned, worker_vars, listing, command,
                    reply, loglevel, remaining, listed, unit_vars >>

\* CheckList::text(path) on the file save has written: the list is loaded
\* anew, as it is when the process starts again.
Load ==
    /\ checklist.allowlist.path # "none"
    /\ file.saved
    /\ checklist' = [checklist EXCEPT !.allowlist =
                         InMemoryAllowList_load(@.path, file.lines)]
    /\ UNCHANGED << lock, poisoned, worker_vars, ctl_vars, unit_vars >>

\* ------------------------------------------------------------ BytePacketBuffer

\* The number of operations applied to one buffer.
MaxOps == 2

\* The longest chain of compression pointers in a start buffer.
MaxChain == 7

RECURSIVE ChainBytes(_, _)
\* A name behind k pointers: the pointer at offset 2i points at offset 2i + 2,
\* and the name "a" stands at offset 2k.
ChainBytes(i, k) ==
    IF i = k THEN << 1, 97, 0 >>
    ELSE << 192, 2 * (i + 1) >> \o ChainBytes(i + 1, k)

\* Two pointers that point at each other.
CycleBytes == << 192, 2, 192, 0 >>

\* A datagram of 512 bytes: the name "a" at offset 0, and as its last two
\* bytes a pointer to offset 0.
TailPointerBytes ==
    [i \in 1..BUF_SIZE |->
        IF i = 1 THEN 1 ELSE IF i = 2 THEN 97 ELSE IF i = BUF_SIZE - 1 THEN 192 ELSE 0]

\* The name "b.a" in pieces: the label "b" at offset 0 and a pointer at
\* offset 2 to the label "a" at offset 6, then a pointer at offset 8 to the
\* end of the name at offset 12.
LabelPointerBytes == << 1, 98, 192, 6, 7, 0, 1, 97, 192, 12, 7, 7, 0 >>

\* A pointer to offset 512, the first offset past the buffer.
FarPointerBytes == << 194, 0 >>

\* The buffers the operations start from: a new buffer, and received bytes
\* that hold a pointer chain, a pointer cycle, a pointer at the end, labels
\* followed by pointers, or a pointer that leaves the buffer.
StartBuffers ==
    { BytePacketBuffer_new, recv_into(CycleBytes), recv_into(TailPointerBytes),
      recv_into(LabelPointerBytes), recv_into(FarPointerBytes) }
    \cup { recv_into(ChainBytes(0, k)) : k \in 0..MaxChain }

\* The label of n letters a.
LabelOf(n) == [i \in 1..n |-> 97]

\* The names write_qname is called with: "a.b", "A.b", "AΣ.b" (capital
\* sigma before the dot), "aΣ", a label of 63 bytes and one of 64 bytes.
BufNames ==
    { Name_a_b, << 65, Dot, 98 >>, << 65, 931, Dot, 98 >>, << 97, 931 >>,
      LabelOf(63) \o << Dot, 98 >>, LabelOf(64) \o << Dot, 98 >> }

\* The positions seek is called with.
SeekTargets == { 0, 2, 445, 507, 510, 511, 512, 513 }

\* An operation on the buffer returned r: the buffer is as the operation
\* left it, and applied keeps the operation, the cursor it started at, its
\* argument and its result.
Applied(op, arg, r) ==
    /\ nops < MaxOps
    /\ nops' = nops + 1
    /\ buffer' = r.b
    /\ applied' = [op |-> op, from |-> buffer.pos, arg |-> arg, err |-> r.err, v |-> r.v]
    /\ UNCHANGED << checklist, lock, poisoned, worker_vars, ctl_vars, sink, count_map, logged >>

Seek(pos) == Applied("seek", pos, Ok(seek(buffer, pos), 0))

Step(steps) == Applied("step", steps, step(buffer, steps))

Read == Applied("read", 0, read(buffer))

ReadU16 == Applied("read_u16", 0, read_u16(buffer))

\* The 32-bit words read here are below 2^31: of the `words` words at the
\* cursor, each starts with a byte below 128.
SmallWords(b, words) ==
    \A j \in 0..(words - 1) :
       b.pos + 4 * j < BUF_SIZE => b.buf[b.pos + 4 * j + 1] < 128

ReadU32 == SmallWords(buffer, 1) /\ Applied("read_u32", 0, read_u32(buffer))

ReadU128 == SmallWords(buffer, 4) /\ Applied("read_u128", 0, read_u128(buffer))

ReadRange(len) == Applied("read_range", len, read_range(buffer, len))

\* buf.get(pos)
Get(pos) == Applied("get", pos, get(buffer, pos))

\* buf.get_range(pos, len): arg keeps the pair.
GetRange(pos, len) == Applied("get_range", << pos, len >>, get_range(buffer, pos, len))

ReadQname == Applied("read_qname", 0, read_qname(buffer))

WriteU8(v) == Applied("write_u8", v, write_u8(buffer, v))

WriteU16(v) == Applied("write_u16", v, write_u16(buffer, v))

WriteU32(v) == Applied("write_u32", v, write_u32(buffer, v))

WriteQname(qname) == Applied("write_qname", qname, write_qname(buffer, qname))

WriteRange(v) == Applied("write_range", v, write_range(buffer, v))

\* read_qname is entered with the cursor where it is: applied keeps the
\* locals of the loop as arg, and "continue" as err while the loop runs.
QnameEntered ==
    applied = [op |-> "read_qname_loop", from |-> buffer.pos,
               arg |-> read_qname_locals(buffer.pos), err |-> "continue", v |-> <<>>]

\* The iteration returned r: the loop goes on, or read_qname returns.
QnameIterated(r) ==
    /\ buffer' = r.b
    /\ applied' = [applied EXCEPT !.arg = r.l, !.err = r.out, !.v = r.l.ret]
    /\ UNCHANGED << checklist, lock, poisoned, worker_vars, ctl_vars, nops, sink,
                    count_map, logged >>

\* One iteration of the loop of read_qname.
QnameIteration ==
    /\ applied.op = "read_qname_loop"
    /\ applied.err = "continue"
    /\ QnameIterated(read_qname_iteration(buffer, applied.arg))

\* ------------------------------------------------------------ codec

\* The longest section of a message that is written.
MaxSection == 1

\* The records of the messages that are written, one of each kind, all for
\* "a.b" with class 1 and ttl 60, each with the rdlength of its rdata: the
\* address 1.2.3.4, the address 1::2, the alias "c.b", a service at "c.b",
\* and three bytes of type 16.
CodecRecords ==
    { Record_new(Name_a_b, QueryType_from(1), 1, 60, 4,
                 [RData_new("A") EXCEPT !.addr = << 1, 2, 3, 4 >>]),
      Record_new(Name_a_b, QueryType_from(28), 1, 60, 16,
                 [RData_new("AAAA") EXCEPT !.addr = << 1, 0, 0, 0, 0, 0, 0, 2 >>]),
      Record_new(Name_a_b, QueryType_from(5), 1, 60, 5,
                 [RData_new("CNAME") EXCEPT !.len = 5, !.name = Name_c_b]),
      Record_new(Name_a_b, QueryType_from(33), 1, 60, 11,
                 [RData_new("SRV") EXCEPT !.len = 11, !.priority = 1, !.weight = 2,
                                          !.port = 53, !.name = Name_c_b]),
      Record_new(Name_a_b, QueryType_from(16), 1, 60, 3,
                 [RData_new("Unknown") EXCEPT !.qtype = QueryType_from(16),
                                              !.bytes = << 2, 104, 105 >>]) }

\* The headers of the messages that are written: a query and a response with
\* rd set, each with the rcode NoError, NXDomain or BADVERS.
CodecHeaders ==
    { [Header_new EXCEPT !.id = 1, !.response = r, !.recursion_desired = r,
                         !.rescode = c] :
      r \in BOOLEAN, c \in { "NoError", "NXDomain", "BADVERS" } }

\* The records of the kinds in kinds.
CodecRecordsOf(kinds) == { r \in CodecRecords : r.rdata.tag \in kinds }

\* The messages that are written: a header, no question or the question for
\* the A records of "a.b", and up to MaxSection records in each section: any
\* of the records as answers, the alias and the record of type 16 as
\* authorities, the address 1.2.3.4 as resources.
CodecMessages ==
    { [header |-> h, questions |-> qs, answers |-> an, authorities |-> au,
       resources |-> re] :
      h \in CodecHeaders,
      qs \in { <<>>, << Question_new(Name_a_b, QueryType_from(1), 1) >> },
      an \in SeqsUpTo(CodecRecords, MaxSection),
      au \in SeqsUpTo(CodecRecordsOf({ "CNAME", "Unknown" }), MaxSection),
      re \in SeqsUpTo(CodecRecordsOf({ "A" }), MaxSection) }

\* msg.write(&mut buf) on a new buffer.
MessageWrite(msg) ==
    /\ applied.op = "none"
    /\ Applied("Message_write", msg, Message_write(msg, buffer))

\* Message::read returned r: applied keeps the message that was written.
MessageReadAs(r) ==
    /\ nops < MaxOps
    /\ nops' = nops + 1
    /\ buffer' = r.b
    /\ applied' = [op |-> "Message_read", from |-> 0, arg |-> applied.arg,
                   err |-> r.err, v |-> r.v]
    /\ UNCHANGED << checklist, lock, poisoned, worker_vars, ctl_vars, sink, count_map, logged >>

\* Message::read(&mut buf) on the buffer write has filled, from its start.
MessageRead ==
    /\ applied.op = "Message_write"
    /\ applied.err = "none"
    /\ MessageReadAs(Message_read(seek(buffer, 0)))

\* The headers that are written alone: every combination of rd, tc, aa and
\* qr with every opcode of 0..15, and every combination of cd, ad, z and ra
\* with every rcode of the enumeration, under no flag and opcode 0 and under
\* every flag and opcode 15 of the first byte.
HeaderInputs ==
    { [Header_new EXCEPT !.id = 1, !.recursion_desired = f[1],
                         !.truncated_message = f[2], !.authoritative_answer = f[3],
                         !.response = f[4], !.opcode = o] :
      f \in BOOLEAN \X BOOLEAN \X BOOLEAN \X BOOLEAN, o \in 0..15 }
    \cup
    { [Header_new EXCEPT !.id = 1, !.recursion_desired = a, !.truncated_message = a,
                         !.authoritative_answer = a, !.response = a,
                         !.opcode = IF a THEN 15 ELSE 0,
                         !.checking_disabled = f[1], !.authed_data = f[2],
                         !.z = f[3], !.recursion_available = f[4], !.rescode = c] :
      a \in BOOLEAN, f \in BOOLEAN \X BOOLEAN \X BOOLEAN \X BOOLEAN,
      c \in ResultCodes }

\* header.write(&mut buf) on a new buffer.
HeaderWrite(h) ==
    /\ applied.op = "none"
    /\ Applied("Header_write", h, Header_write(h, buffer))

\* header.read(&mut buf) on the buffer write has filled, from its start:
\* applied keeps the header that was written.
HeaderRead ==
    /\ applied.op = "Header_write"
    /\ applied.err = "none"
    /\ Applied("Header_read", applied.arg, Header_read(seek(buffer, 0)))

\* ------------------------------------------------------------ LFFResolveEvent

\* The most events of one fingerprint.
MaxCount == 4

\* The statuses resolved is called with: each variant for the A records of
\* "a.b", and Deny for the A records of "b".
SinkStatuses ==
    { ResolvedStatus(v[1], ResolvedData_new(QueryType_from(1), Name_a_b), v[2]) :
      v \in { << "Allow", "" >>, << "AllowButError", "ServFail" >>,
              << "Deny", "NXDomain" >>, << "NoCheck", "" >>,
              << "NoCheckButError", "ServFail" >> } }
    \cup { ResolvedStatus("Deny", ResolvedData_new(QueryType_from(1), Name_b), "NXDomain") }

\* resolved has returned: r holds the count_map and the log it left.
ResolvedAs(st, r) ==
    /\ count_map' = r.count_map
    /\ logged' = r.logged
    /\ applied' = [op |-> "resolved", from |-> 0, arg |-> st, err |-> "none", v |-> <<>>]
    /\ UNCHANGED << checklist, lock, poisoned, worker_vars, ctl_vars, buffer, nops, sink >>

\* event.resolved(status); nothing panics while it holds the write lock of
\* count_map, so the lock is never poisoned.
Resolved(st) ==
    /\ or_insert_0(count_map, LFFResolveEvent_code(st.data)) < MaxCount
    /\ ResolvedAs(st, LFFResolveEvent_resolved(sink, count_map, logged, st, TRUE))

\* ------------------------------------------------------------ specifications

\* The steps of the UDP worker.
NextWorker ==
    \/ \E payload \in Datagrams : Recv(payload)
    \/ Check
    \/ Classify
    \/ \E outcome \in NetOutcomes(req.header.id) : Lookup(outcome)
    \/ Send
    \/ Loop

\* The UDP worker, and ipctl clients that change the allowlist.
Next ==
    \/ NextWorker
    \/ \E fqdn \in IpctlArgs : IpctlAllow(fqdn)
    \/ \E fqdn \in IpctlArgs : IpctlDeny(fqdn)

Spec == Init /\ [][Next]_vars

\* The ipctl handlers, each line with its reply, while no datagram arrives.
NextCtl ==
    \/ \E line \in IpctlLines, io \in BOOLEAN : Ipctl(line, io)
    \/ \E line \in IpctlLines : ListBegin(line)
    \/ ListNext
    \/ ListEnd

SpecCtl == Init /\ [][NextCtl]_vars

\* A CheckList under the calls of its interface.
InitList ==
    /\ checklist \in { CompositeCheckList_new(al, InMemoryAllowList_new) :
                         al \in StartLists("allowlist") }
    /\ lock = {}
    /\ poisoned = FALSE
    /\ pc = "recv"
    /\ Fresh
    /\ CtlFresh
    /\ UnitFresh

NextList ==
    \/ \E name \in ListArgs : Add(name)
    \/ \E name \in ListArgs : Delete(name)
    \/ \E io \in BOOLEAN : Save(io)
    \/ Load

SpecList == InitList /\ [][NextList]_vars

\* The UDP worker, ipctl clients that change the allowlist, and "save" with
\* its file I/O as a step of its own.
NextSave ==
    \/ NextWorker
    \/ \E fqdn \in IpctlArgs : IpctlAllow(fqdn)
    \/ \E fqdn \in IpctlArgs : IpctlDeny(fqdn)
    \/ \E io \in BOOLEAN : SaveBegin(Str_save, io)
    \/ SaveEnd

\* The denylist is empty and in memory, the allowlist any of the start lists.
SpecSave == InitList /\ [][NextSave]_vars

\* An in-memory list under add and delete of entries with a wildcard.
InitGlob ==
    /\ checklist = CompositeCheckList_new(InMemoryAllowList_new, InMemoryAllowList_new)
    /\ lock = {}
    /\ poisoned = FALSE
    /\ pc = "recv"
    /\ Fresh
    /\ CtlFresh
    /\ UnitFresh

NextGlob ==
    \/ \E name \in GlobArgs : Add(name)
    \/ \E name \in GlobArgs : Delete(name)

SpecGlob == InitGlob /\ [][NextGlob]_vars

\* A BytePacketBuffer under the calls of its interface.
InitBuf ==
    /\ checklist = CompositeCheckList_new(InMemoryAllowList_new, InMemoryAllowList_new)
    /\ lock = {}
    /\ poisoned = FALSE
    /\ pc = "recv"
    /\ Fresh
    /\ CtlFresh
    /\ buffer \in StartBuffers
    /\ applied = NoneApplied
    /\ nops = 0
    /\ sink = LFFResolveEvent_new(threshold, FALSE, FALSE)
    /\ count_map = << >>
    /\ logged = << >>

NextBuf ==
    \/ \E pos \in SeekTargets : Seek(pos)
    \/ \E steps \in { 1, 2 } : Step(steps)
    \/ Read
    \/ ReadU16
    \/ ReadU32
    \/ ReadU128
    \/ \E len \in { 0, 2 } : ReadRange(len)
    \/ \E pos \in { 0, 511, 512, 16383 } : Get(pos)
    \/ \E pos \in { 0, 510, 511 } : GetRange(pos, 2)
    \/ ReadQname
    \/ WriteU8(7)
    \/ WriteU16(258)
    \/ WriteU32(16909060)
    \/ \E qname \in BufNames : WriteQname(qname)
    \/ WriteRange(<< 1, 2 >>)

SpecBuf == InitBuf /\ [][NextBuf]_vars

\* read_qname is called on a start buffer with the cursor at a seek target.
InitQname ==
    /\ checklist = CompositeCheckList_new(InMemoryAllowList_new, InMemoryAllowList_new)
    /\ lock = {}
    /\ poisoned = FALSE
    /\ pc = "recv"
    /\ Fresh
    /\ CtlFresh
    /\ buffer \in { seek(b, p) : b \in StartBuffers, p \in SeekTargets }
    /\ QnameEntered
    /\ nops = 0
    /\ sink = LFFResolveEvent_new(threshold, FALSE, FALSE)
    /\ count_map = << >>
    /\ logged = << >>

NextQname == QnameIteration

\* The loop is not suspended: an iteration that can be made is made.
SpecQname == InitQname /\ [][NextQname]_vars /\ WF_vars(NextQname)

\* Messages are written to a new buffer and read from it.
InitCodec ==
    /\ checklist = CompositeCheckList_new(InMemoryAllowList_new, InMemoryAllowList_new)
    /\ lock = {}
    /\ poisoned = FALSE
    /\ pc = "recv"
    /\ Fresh
    /\ CtlFresh
    /\ UnitFresh

NextCodec ==
    \/ \E msg \in CodecMessages : MessageWrite(msg)
    \/ MessageRead
    \/ \E h \in HeaderInputs : HeaderWrite(h)
    \/ HeaderRead

SpecCodec == InitCodec /\ [][NextCodec]_vars

\* The event sink under each configuration of the two output flags.
InitSink ==
    /\ checklist = CompositeCheckList_new(InMemoryAllowList_new, InMemoryAllowList_new)
    /\ lock = {}
    /\ poisoned = FALSE
    /\ pc = "recv"
    /\ Fresh
    /\ CtlFresh
    /\ buffer = BytePacketBuffer_new
    /\ applied = NoneApplied
    /\ nops = 0
    /\ sink \in { LFFResolveEvent_new(threshold, a, n) : a \in BOOLEAN, n \in BOOLEAN }
    /\ count_map = << >>
    /\ logged = << >>

NextSink == \E st \in SinkStatuses : Resolved(st)

SpecSink == InitSink /\ [][NextSink]_vars

\* The process with the lock poisoned: a thread has panicked with the write
\* guard in hand.  No step of the handlers does, so the fault is there from
\* the start; the lists are the empty in-memory ones.
InitPoisoned ==
    /\ checklist = CompositeCheckList_new(InMemoryAllowList_new, InMemoryAllowList_new)
    /\ lock = {}
    /\ poisoned = TRUE
    /\ pc = "recv"
    /\ Fresh
    /\ CtlFresh
    /\ UnitFresh

NextPoisoned ==
    \/ NextWorker
    \/ \E line \in IpctlLines, io \in BOOLEAN : Ipctl(line, io)
    \/ \E line \in IpctlLines : ListBegin(line)

SpecPoisoned == InitPoisoned /\ [][NextPoisoned]_vars

\* ------------------------------------------------------------ properties

\* The names the requests of the model ask for, as the decoder yields them,
\* and a pattern.
CheckedNames == { Name_a_b, Name_c_b, Name_b, Pattern_star_b }

\* The datagram being handled carries a question of type A or AAAA.
AddressQuery == question # <<>> /\ IsAddressQuery(question[1])

\* The datagram being handled carries a question of another type.
OtherQuery == question # <<>> /\ ~IsAddressQuery(question[1])

\* The header a receiver decodes from the datagram d.
HeaderOf(d) == Header_read(recv_into(d)).v

\* The upstream exchange of this datagram failed: a socket error, or a reply
\* that does not decode.
UpstreamFailed ==
    /\ net # <<>>
    /\ \/ net[1].io # "ok"
       \/ Message_read(recv_into(net[1].payload)).err \notin {"none", "panic"}

\* The only event of this datagram is a resolved event.
OneResolved == Len(events) = 1 /\ events[1].kind = "resolved"

\* C1: CompositeCheckList.check is deny-wins: for every name and every pair
\* of lists, it returns Deny whenever the denylist matches the name, whether or
\* not the allowlist matches too, Allow when only the allowlist matches, and
\* NotFound when neither matches.
C1_DenyWins ==
    \A name \in CheckedNames :
        /\ CheckList_check(checklist.denylist, name)
              => CompositeCheckList_check(checklist, name) = "Deny"
        /\ (~CheckList_check(checklist.denylist, name)
              /\ CheckList_check(checklist.allowlist, name))
              => CompositeCheckList_check(checklist, name) = "Allow"
        /\ (~CheckList_check(checklist.denylist, name)
              /\ ~CheckList_check(checklist.allowlist, name))
              => CompositeCheckList_check(checklist, name) = "NotFound"

\* A query was classified Deny for a name both lists match.
C1_Witness ==
    /\ pc = "send"
    /\ status = "Deny"
    /\ CheckList_check(checklist.denylist, question[1].name)
    /\ CheckList_check(checklist.allowlist, question[1].name)

\* C2: for an A or AAAA query whose name classifies as Deny or NotFound, no
\* query leaves for the upstream for that datagram, and the response sent to
\* the client carries rcode NXDomain.
C2_DeniedNotForwarded ==
    (AddressQuery /\ status \in {"Deny", "NotFound"}) =>
        /\ net = <<>>
        /\ queries = <<>>
        /\ pc \in {"send", "done"}
        /\ pc = "done" =>
              /\ Len(sent) = 1
              /\ Len(sent[1]) >= 12
              /\ HeaderOf(sent[1]).rescode = "NXDomain"

\* The response to a query for a name in neither list has been sent.
C2_Witness ==
    /\ pc = "done"
    /\ AddressQuery
    /\ status = "NotFound"
    /\ Len(sent) = 1
    /\ queries = <<>>

\* C3, as stated: for an A or AAAA query that is denied, by a hit in the
\* denylist (Deny) as well as by being in neither list (NotFound), a resolved
\* event of variant Deny with an empty resp map is emitted.
C3_DenyEventForBoth ==
    (pc = "done" /\ AddressQuery /\ status \in {"Deny", "NotFound"}) =>
        \E i \in 1..Len(events) :
            /\ events[i].kind = "resolved"
            /\ events[i].status.variant = "Deny"
            /\ events[i].status.data.resp = <<>>

\* C3, amended: for an A or AAAA query whose name is in neither list
\* (NotFound) exactly one event is emitted, a resolved event of variant Deny
\* that carries the question's type and name, an empty resp map and NXDomain;
\* for a query whose name hits the denylist (Deny) no event is emitted.
C3_DenyEventForNotFoundOnly ==
    (pc = "done" /\ AddressQuery) =>
        /\ status = "NotFound" =>
              events = << Event_resolved(ResolvedStatus("Deny",
                             ResolvedData_new(question[1].qtype, question[1].name),
                             "NXDomain")) >>
        /\ status = "Deny" => events = <<>>

\* The response to a query for a name of the denylist has been sent, and no
\* event was emitted.
C3_Witness ==
    /\ pc = "done"
    /\ AddressQuery
    /\ status = "Deny"
    /\ Len(sent) = 1
    /\ events = <<>>

\* C4: a query whose type is neither A nor AAAA goes to the upstream lookup
\* without the shared filter being consulted, whatever the two lists hold,
\* and the resolved event emitted for it is NoCheck or NoCheckButError, never
\* Allow, AllowButError or Deny.
C4_OtherTypesUnchecked ==
    OtherQuery =>
        /\ status = "none"
        /\ pc \in {"lookup", "send", "done", "panicked"}
        /\ pc \in {"send", "done"} =>
              /\ net # <<>>
              /\ OneResolved
              /\ events[1].status.variant \in {"NoCheck", "NoCheckButError"}

\* A query of another type for a name of the denylist went to the upstream
\* and was answered.
C4_Witness ==
    /\ pc = "done"
    /\ OtherQuery
    /\ CheckList_check(checklist.denylist, question[1].name)
    /\ queries # <<>>
    /\ OneResolved
    /\ events[1].status.variant = "NoCheck"

\* C5: for an allowed A or AAAA query the status emitted is Allow exactly
\* when the upstream exchange succeeded and the result code decoded from the
\* reply is NoError, AllowButError with that code when the reply carries
\* another one, and AllowButError(ServFail) when the exchange failed.
C5_AllowStatus ==
    (pc \in {"send", "done"} /\ AddressQuery /\ status = "Allow") =>
        /\ net # <<>>
        /\ OneResolved
        /\ IF UpstreamFailed
           THEN /\ events[1].status.variant = "AllowButError"
                /\ events[1].status.code = "ServFail"
           ELSE IF ResultCode_from(net[1].payload[4] % 16) = "NoError"
           THEN events[1].status.variant = "Allow"
           ELSE /\ events[1].status.variant = "AllowButError"
                /\ events[1].status.code = ResultCode_from(net[1].payload[4] % 16)

\* An allowed query the upstream answered with NXDomain.
C5_Witness ==
    /\ pc = "done"
    /\ AddressQuery
    /\ status = "Allow"
    /\ net # <<>>
    /\ net[1].io = "ok"
    /\ OneResolved
    /\ events[1].status.variant = "AllowButError"
    /\ events[1].status.code = "NXDomain"

\* C6: when the upstream exchange of a forwarded query fails, by a socket
\* error or by a reply that does not decode, a response with rcode ServFail
\* is sent to the client.
C6_ServFailSent ==
    (pc = "done" /\ question # <<>> /\ UpstreamFailed) =>
        /\ Len(sent) = 1
        /\ Len(sent[1]) >= 12
        /\ HeaderOf(sent[1]).rescode = "ServFail"

\* C7: for every datagram the worker has received and dealt with, on every
\* path, one datagram that holds at least a complete 12-byte header has been
\* sent back.
C7_AlwaysAnswered ==
    pc = "done" => (Len(sent) = 1 /\ Len(sent[1]) >= 12)

\* C8: no content of a client datagram stops the receive loop: a failure to
\* decode it ends the handling of that datagram only.
C8_LoopNeverStops == ~(pc = "panicked" /\ net = <<>>)

\* C9: for a decoded request without question a response with rcode FormErr
\* and no question is sent, one error event and no resolved event is emitted,
\* and the upstream is not contacted.
C9_NoQuestionFormErr ==
    (pc \in {"send", "done"} /\ question = <<>>
        /\ IsOk(Message_read(recv_into(datagram)))) =>
        /\ net = <<>>
        /\ queries = <<>>
        /\ events = << Event_error("", req.header.id, "FormErr") >>
        /\ Len(raw_buf) = 12
        /\ HeaderOf(raw_buf).rescode = "FormErr"
        /\ HeaderOf(raw_buf).questions = 0
        /\ pc = "done" => sent = << raw_buf >>

\* The FormErr response to a request that is a header without question has
\* been sent.
C9_Witness ==
    /\ pc = "done"
    /\ question = <<>>
    /\ Len(datagram) = 12
    /\ Len(sent) = 1
    /\ Len(events) = 1

\* C10: a synthesized response (Deny, NotFound, FormErr) has the id, rd, ra
\* and qr of the request, the result code chosen for it, four empty sections
\* and the four counts 0.
C10_SynthesizedMirrors ==
    (pc = "done" /\ net = <<>> /\ sent # <<>>) =>
        /\ Len(sent[1]) = 12
        /\ IsOk(Message_read(recv_into(sent[1])))
        /\ Message_read(recv_into(sent[1])).v =
              [Message_new EXCEPT
                  !.header.id = req.header.id,
                  !.header.recursion_desired = req.header.recursion_desired,
                  !.header.recursion_available = req.header.recursion_available,
                  !.header.response = req.header.response,
                  !.header.rescode = IF question = <<>> THEN "FormErr" ELSE "NXDomain"]

\* The NXDomain response to a denied request that has rd, ra and qr set has
\* been sent.
C10_Witness ==
    /\ pc = "done"
    /\ status = "Deny"
    /\ req.header.recursion_desired
    /\ req.header.recursion_available
    /\ req.header.response
    /\ req.header.id = 43981
    /\ Len(sent) = 1

\* The upstream exchange of this datagram succeeded: a reply arrived and it
\* decodes.
UpstreamAnswered ==
    /\ net # <<>>
    /\ net[1].io = "ok"
    /\ Message_read(recv_into(net[1].payload)).err = "none"

\* C11: when the upstream exchange succeeds, the bytes sent to the client are
\* exactly the bytes received from the upstream, not the decoded message
\* encoded again; this holds for an allowed A/AAAA query and for a query of
\* another type alike.
C11_RawRelayed ==
    (pc \in {"send", "done"} /\ UpstreamAnswered) =>
        /\ raw_buf = net[1].payload
        /\ pc = "done" => sent = << net[1].payload >>

\* A query of another type was answered with the reserved rcode 13, which the
\* decoder reads as NoError, and the answer has gone to the client.
C11_Witness ==
    /\ pc = "done"
    /\ OtherQuery
    /\ UpstreamAnswered
    /\ net[1].payload[4] % 16 = 13
    /\ sent = << net[1].payload >>

\* C12: the worker holds the read lock only while it classifies the name: it
\* holds none during the upstream exchange or the send, so that a handler
\* that changes the allowlist is never kept waiting by a query in flight.
C12_LockOnlyWhileClassifying ==
    /\ "worker" \in lock => pc = "classify"
    /\ pc \in {"lookup", "send"} => "worker" \notin lock /\ CanWrite

\* The allowlist was changed while the exchange of an allowed query was in
\* flight: the name is no longer allowed.
C12_Witness ==
    /\ pc = "lookup"
    /\ status = "Allow"
    /\ lock = {}
    /\ CompositeCheckList_check(checklist, question[1].name) # "Allow"

\* C13: the lists change only when no read guard is out, and a
\* classification returns what the lists hold when it is made: once a handler
\* has changed the allowlist and dropped the write lock, every classification
\* made afterwards sees the change, and none sees a list half changed.
C13_MutationVisible ==
    [][/\ checklist' # checklist => lock = {} /\ lock' = {}
       /\ (pc = "classify" /\ pc' # "classify") =>
             status' = CompositeCheckList_check(checklist', question[1].name)]_vars

\* A name was classified Allow against a list that was empty when the
\* process started: the classification saw the entry a handler added.
C13_Witness ==
    /\ pc = "lookup"
    /\ AddressQuery
    /\ status = "Allow"
    /\ checklist.allowlist.path = "none"

\* The lists the process started with when its lock is poisoned.
StartedEmpty == CompositeCheckList_new(InMemoryAllowList_new, InMemoryAllowList_new)

\* C14: when the lock around the lists cannot be acquired, the worker treats
\* the name of an A/AAAA query as Deny and does not forward it, and a handler
\* that was to change the allowlist replies that the change failed; neither
\* list is changed.
C14_LockFailure ==
    poisoned =>
        /\ (AddressQuery /\ pc \in {"lookup", "send", "done", "panicked"}) =>
              /\ status = "Deny"
              /\ queries = <<>>
              /\ net = <<>>
        /\ checklist = StartedEmpty
        /\ TakesWriteLock(command) =>
              reply = Reply("Failed to add {fqdn} to AllowList",
                            split_space(command, <<>>)[2])

\* With the lock poisoned an A query was answered without a lookup, and the
\* handler of "deny a.b" has replied.
C14_Witness ==
    /\ poisoned
    /\ pc = "done"
    /\ AddressQuery
    /\ status = "Deny"
    /\ Len(sent) = 1
    /\ ipctl_verb(command) = Str_deny
    /\ TakesWriteLock(command)
    /\ reply.fmt = "Failed to add {fqdn} to AllowList"

\* The entries a list holds, exact names and patterns.
Entries(list) == list.names \cup list.wnames

\* This step is a handler other than that of list replying to a line.
IpctlStep ==
    /\ listing' = listing
    /\ listed' = listed
    /\ remaining' = remaining
    /\ << command, reply, checklist, loglevel, file >>'
          # << command, reply, checklist, loglevel, file >>

\* "allow" as clients type it: in lower and in upper case.
AllowVerbs == { Str_allow, <<65, 76, 76, 79, 87>> }

\* C15: "allow <fqdn>", the verb in any case, adds the fqdn to the allowlist
\* and replies "Add <fqdn> to AllowList" when the allowlist did not hold it,
\* and leaves the allowlist as it is and replies "<fqdn> is already in
\* AllowList" when it did.
C15_AllowReply ==
    [][\A verb \in AllowVerbs, fqdn \in IpctlArgs :
          (IpctlStep /\ command' = Line(verb, fqdn)) =>
             /\ checklist'.denylist = checklist.denylist
             /\ Entries(checklist'.allowlist) = Entries(checklist.allowlist) \cup {fqdn}
             /\ IF fqdn \in Entries(checklist.allowlist)
                THEN /\ reply' = Reply("{fqdn} is already in AllowList", fqdn)
                     /\ checklist' = checklist
                ELSE reply' = Reply("Add {fqdn} to AllowList", fqdn)]_vars

\* "ALLOW a.b" was handled and has added a.b.
C15_Witness ==
    /\ command = Line(<<65, 76, 76, 79, 87>>, Name_a_b)
    /\ reply = Reply("Add {fqdn} to AllowList", Name_a_b)
    /\ Name_a_b \in checklist.allowlist.names

\* C16 as stated: "deny <fqdn>" removes the fqdn and replies "Remove <fqdn>
\* from AllowList" when the fqdn is an entry of the allowlist, and otherwise
\* leaves the allowlist as it is and replies "<fqdn> is not in AllowList".
C16_DenyRemovesEntry ==
    [][\A fqdn \in IpctlArgs :
          (IpctlStep /\ command' = Line(Str_deny, fqdn)) =>
             IF fqdn \in Entries(checklist.allowlist)
             THEN /\ reply' = Reply("Remove {fqdn} from AllowList", fqdn)
                  /\ Entries(checklist'.allowlist) = Entries(checklist.allowlist) \ {fqdn}
             ELSE /\ reply' = Reply("{fqdn} is not in AllowList", fqdn)
                  /\ checklist' = checklist]_vars

\* C16, amended: "deny <fqdn>" removes the fqdn and replies "Remove <fqdn>
\* from AllowList" when the fqdn is an exact name of the allowlist; otherwise,
\* also when the fqdn is a pattern the allowlist holds, it leaves the
\* allowlist as it is and replies "<fqdn> is not in AllowList".
C16_DenyRemovesExactName ==
    [][\A fqdn \in IpctlArgs :
          (IpctlStep /\ command' = Line(Str_deny, fqdn)) =>
             /\ checklist'.denylist = checklist.denylist
             /\ IF fqdn \in checklist.allowlist.names
                THEN /\ reply' = Reply("Remove {fqdn} from AllowList", fqdn)
                     /\ checklist'.allowlist =
                           [checklist.allowlist EXCEPT !.names = @ \ {fqdn}]
                ELSE /\ reply' = Reply("{fqdn} is not in AllowList", fqdn)
                     /\ checklist' = checklist]_vars

\* "deny *.b" got the reply "*.b is not in AllowList" while the allowlist
\* holds the pattern *.b.
C16_Witness ==
    /\ command = Line(Str_deny, Pattern_star_b)
    /\ reply = Reply("{fqdn} is not in AllowList", Pattern_star_b)
    /\ Pattern_star_b \in checklist.allowlist.wnames

\* The handler of "save" replies in this step, the allowlist being an
\* in-memory one.
SaveInMemoryStep ==
    /\ IpctlStep
    /\ command' = Str_save
    /\ checklist.allowlist.path = "none"

InvalidLines == { Str_log, Str_allow, Str_deny, Line(Name_b, Name_a_b), <<>> }

\* C18: a line whose verb is none of log, allow, deny, save and list, or
\* whose verb is log, allow or deny and has no argument, gets the reply
\* "Invalid command: <line>" and changes neither list nor the log level.
C18_InvalidCommand ==
    [][\A line \in InvalidLines :
          (IpctlStep /\ command' = line) =>
             /\ reply' = Reply("Invalid command: {command}", line)
             /\ checklist' = checklist
             /\ loglevel' = loglevel
             /\ file' = file]_vars

\* "allow" without argument was refused after the log level had been changed
\* and the allowlist filled.
C18_Witness ==
    /\ command = Str_allow
    /\ reply = Reply("Invalid command: {command}", Str_allow)
    /\ loglevel # StartLevel
    /\ Entries(checklist.allowlist) # {}

\* C19: the reply to "list" holds every entry of the allowlist, exact names
\* and patterns, each once, joined by "\n"; the entries are collected under
\* the read lock, so whatever allow and deny commands arrive meanwhile, the
\* reply is the content of the allowlist in one state, the one it is sent in.
C19_ListReply ==
    [][(listing # <<>> /\ listing' = <<>>) =>
          /\ command' = listing[1]
          /\ \E order \in Orders(Entries(checklist.allowlist)) :
                reply' = Reply("{}", join(order, << Newline >>))
          /\ checklist' = checklist]_vars

\* "list" was answered with the name a.b and the pattern *.b.
C19_Witness ==
    /\ command = Str_list
    /\ listing = <<>>
    /\ reply = Reply("{}", Name_a_b \o << Newline >> \o Pattern_star_b)
    /\ Entries(checklist.allowlist) = { Name_a_b, Pattern_star_b }

\* add(x) on the list: 1 exactly when x is not stored, the list left as it is
\* when x is stored, and 0 from a second add(x) that follows, which changes
\* nothing either.
AddOnce(list, x) ==
    With(CheckList_add(list, x), LAMBDA first :
    With(CheckList_add(first.list, x), LAMBDA second :
        /\ first.n = (IF x \in list.names \cup list.wnames THEN 0 ELSE 1)
        /\ x \in list.names \cup list.wnames => first.list = list
        /\ x \in first.list.names \cup first.list.wnames
        /\ second.n = 0
        /\ second.list = first.list))

\* C20: add(x) returns 1 exactly when x was not stored and 0 when it was;
\* adding an entry that is stored changes neither names nor wnames, so a
\* second add(x) right after the first returns 0.
C20_AddReturnsOneOnce ==
    \A x \in CheckedNames :
       /\ AddOnce(checklist.allowlist, x)
       /\ AddOnce(checklist.denylist, x)

\* "allow *.b" was handled twice: the second add returned 0.
C20_Witness ==
    /\ command = Line(Str_allow, Pattern_star_b)
    /\ reply = Reply("{fqdn} is already in AllowList", Pattern_star_b)
    /\ checklist.allowlist.path = "none"
    /\ checklist.allowlist.wnames = { Pattern_star_b }

\* C21: after any sequence of adds and deletes, count() is |names| +
\* |wnames|, names and wnames are disjoint, an entry being in wnames exactly
\* when it contains `*`, and count() is the number of distinct entries stored.
C21_CountAndRouting ==
    /\ CheckList_count(checklist.allowlist)
          = Cardinality(checklist.allowlist.names) + Cardinality(checklist.allowlist.wnames)
    /\ checklist.allowlist.names \cap checklist.allowlist.wnames = {}
    /\ \A e \in Entries(checklist.allowlist) :
          e \in checklist.allowlist.wnames <=> contains_star(e)
    /\ CheckList_count(checklist.allowlist) = Cardinality(Entries(checklist.allowlist))

\* An in-memory list that add has given two exact names and a pattern.
C21_Witness ==
    /\ checklist.allowlist.path = "none"
    /\ checklist.allowlist.wnames = { Pattern_star_b }
    /\ Cardinality(checklist.allowlist.names) = 2
    /\ CheckList_count(checklist.allowlist) = 3

\* The names check is asked about: a.b, c.b, b, a.a.b, a.bc, ca.b, a, and the
\* strings add is called with.
ProbeNames ==
    { Name_a_b, Name_c_b, Name_b, <<97, Dot, 97, Dot, 98>>, <<97, Dot, 98, 99>>,
      <<99, 97, Dot, 98>>, <<97>> } \cup ListArgs

\* C22: check is monotone under add: when add(x) returns 1, check(x) is true
\* right afterwards, and no add makes check false for a name it was true for,
\* so that check(x) stays true under any further adds.
C22_CheckMonotone ==
    [][\A x \in ListArgs :
          (/\ CheckList_add(checklist.allowlist, x).n = 1
           /\ checklist'.allowlist = CheckList_add(checklist.allowlist, x).list) =>
             /\ CheckList_check(checklist'.allowlist, x)
             /\ \A y \in ProbeNames :
                   CheckList_check(checklist.allowlist, y) =>
                      CheckList_check(checklist'.allowlist, y)]_vars

\* add has stored the two patterns in an in-memory list, and check is true
\* for each of them and for a.b.
C22_Witness ==
    /\ checklist.allowlist.path = "none"
    /\ checklist.allowlist.names = {}
    /\ checklist.allowlist.wnames = { Pattern_star_b, Pattern_a_star }
    /\ CheckList_check(checklist.allowlist, Pattern_star_b)
    /\ CheckList_check(checklist.allowlist, Pattern_a_star)
    /\ CheckList_check(checklist.allowlist, Name_a_b)

\* The patterns among the strings check is asked about.
Patterns == { x \in ProbeNames : contains_star(x) }

\* A pattern matches a name anchored at both ends when the name can be cut into
\* Len(p) consecutive pieces that cover it from its first to its last
\* character: the piece of a `*` is any run, the piece of any other pattern
\* character is one character, that character itself or anything under `?`.
Anchored(p, s) ==
    \E c \in [0..Len(p) -> 0..Len(s)] :
       /\ c[0] = 0
       /\ c[Len(p)] = Len(s)
       /\ \A i \in 1..Len(p) :
             IF p[i] = Star THEN c[i] >= c[i - 1]
             ELSE /\ c[i] = c[i - 1] + 1
                  /\ p[i] = Quest \/ s[c[i]] = p[i]

\* The pairs of a pattern and a name it matches anchored at both ends.
AnchoredPairs == { ps \in Patterns \X ProbeNames : Anchored(ps[1], ps[2]) }

\* C23: check(name) is true exactly when name is in names or some pattern of
\* wnames matches name anchored at both ends; with only *.b stored, check is
\* true for a.b and a.a.b and false for b.
C23_CheckIsNamesOrAnchoredPattern ==
    /\ \A s \in ProbeNames :
          CheckList_check(checklist.allowlist, s) <=>
             \/ s \in checklist.allowlist.names
             \/ \E w \in checklist.allowlist.wnames : <<w, s>> \in AnchoredPairs
    /\ (checklist.allowlist.names = {} /\ checklist.allowlist.wnames = { Pattern_star_b }) =>
          /\ CheckList_check(checklist.allowlist, Name_a_b)
          /\ CheckList_check(checklist.allowlist, <<97, Dot, 97, Dot, 98>>)
          /\ ~CheckList_check(checklist.allowlist, Name_b)

\* add has stored *.b as the only entry of an in-memory list: a.b is allowed,
\* b and a.bc are not.
C23_Witness ==
    /\ checklist.allowlist.path = "none"
    /\ checklist.allowlist.names = {}
    /\ checklist.allowlist.wnames = { Pattern_star_b }
    /\ CheckList_check(checklist.allowlist, Name_a_b)
    /\ ~CheckList_check(checklist.allowlist, Name_b)
    /\ ~CheckList_check(checklist.allowlist, <<97, Dot, 98, 99>>)

\* C24: for every file-backed check list reached by adds and deletes, save
\* followed by a load of the same path yields the same names and the same
\* wnames.
C24_SaveLoadRoundTrip ==
    checklist.allowlist.path # "none" =>
       /\ InMemoryAllowList_load(checklist.allowlist.path,
              CheckList_save(checklist.allowlist, TRUE).lines).names
          = checklist.allowlist.names
       /\ InMemoryAllowList_load(checklist.allowlist.path,
              CheckList_save(checklist.allowlist, TRUE).lines).wnames
          = checklist.allowlist.wnames

\* The operations that move the cursor.
CursorOps ==
    { "read", "read_u16", "read_u32", "read_u128", "read_range", "read_qname",
      "write_u8", "write_u16", "write_u32", "write_qname", "seek", "step" }

\* C28: after every successful operation of the byte buffer (read, read_u16,
\* read_u32, read_u128, read_range, read_qname, write_u8, write_u16,
\* write_u32, write_qname, seek, step) the cursor is at most 512.
C28_CursorInBuffer ==
    (applied.op \in CursorOps /\ applied.err = "none") => buffer.pos <= BUF_SIZE

RECURSIVE JumpsNeeded(_, _, _)
\* The number of pointer jumps the decoding of the name at offset p of buf
\* makes, counted up to `most`: labels inside the buffer are passed over, a
\* pointer is two bytes inside the buffer, the first of them 0xC0 or above.
JumpsNeeded(buf, p, most) ==
    IF most = 0 \/ p >= BUF_SIZE THEN 0
    ELSE IF buf[p + 1] >= 192
    THEN IF p + 1 >= BUF_SIZE THEN 0
         ELSE 1 + JumpsNeeded(buf, (buf[p + 1] - 192) * 256 + buf[p + 2], most - 1)
    ELSE IF buf[p + 1] = 0 \/ p + 1 + buf[p + 1] >= BUF_SIZE THEN 0
    ELSE JumpsNeeded(buf, p + 1 + buf[p + 1], most)

RECURSIVE WellFormedName(_, _, _)
\* A name stands at offset p of buf, wholly inside the buffer, and its
\* decoding needs at most `jumps` pointer jumps: it is the zero byte, or a
\* label of 1..63 bytes followed by a name, or a pointer, two bytes inside the
\* buffer, to a name that needs one jump less.
WellFormedName(buf, p, jumps) ==
    /\ p < BUF_SIZE
    /\ IF buf[p + 1] >= 192
       THEN /\ jumps > 0
            /\ p + 1 < BUF_SIZE
            /\ WellFormedName(buf, (buf[p + 1] - 192) * 256 + buf[p + 2], jumps - 1)
       ELSE IF buf[p + 1] = 0 THEN TRUE
       ELSE /\ buf[p + 1] < 64
            /\ p + 1 + buf[p + 1] < BUF_SIZE
            /\ WellFormedName(buf, p + 1 + buf[p + 1], jumps)

\* C27: read_qname follows at most 5 pointers: a name whose decoding needs at
\* most 5 pointer jumps is decoded, and a name behind more than 5 pointers, a
\* pointer cycle included, fails with JumpLimit.
C27_JumpLimit ==
    (applied.op = "read_qname" /\ applied.from < BUF_SIZE) =>
       /\ WellFormedName(buffer.buf, applied.from, max_jumps) => applied.err = "none"
       /\ JumpsNeeded(buffer.buf, applied.from, max_jumps + 1) > max_jumps =>
             applied.err = "JumpLimit"

\* C27 for the names whose first pointer does not end the buffer.
C27_JumpLimitBeforeTheEnd ==
    (applied.op = "read_qname" /\ applied.from < BUF_SIZE) =>
       /\ (/\ WellFormedName(buffer.buf, applied.from, max_jumps)
           /\ ~(applied.from = BUF_SIZE - 2 /\ buffer.buf[applied.from + 1] >= 192)) =>
             applied.err = "none"
       /\ JumpsNeeded(buffer.buf, applied.from, max_jumps + 1) > max_jumps <=>
             applied.err = "JumpLimit"

\* read_qname has decoded the name behind exactly 5 pointers.
C27_Decoded ==
    /\ applied.op = "read_qname"
    /\ applied.from = 0
    /\ buffer.buf = recv_into(ChainBytes(0, max_jumps)).buf
    /\ JumpsNeeded(buffer.buf, 0, max_jumps + 1) = max_jumps
    /\ applied.err = "none"
    /\ applied.v = << 97 >>

\* read_qname has refused the name behind 6 pointers.
C27_Refused ==
    /\ applied.op = "read_qname"
    /\ applied.from = 0
    /\ buffer.buf = recv_into(ChainBytes(0, max_jumps + 1)).buf
    /\ applied.err = "JumpLimit"

\* Every label of the dotted name n has 1..=63 bytes.
LabelsInRange(n) ==
    \A i \in 1..Len(split_dot(n, <<>>)) :
       /\ Len(as_bytes(split_dot(n, <<>>)[i])) >= 1
       /\ Len(as_bytes(split_dot(n, <<>>)[i])) <= 63

\* write_qname was called at `from` and the name is read back from there.
ReadBack == read_qname(seek(buffer, applied.from))

\* C26: for a dotted name n whose labels all have 1..=63 bytes and that fits
\* in the buffer, write_qname(n) followed by read_qname from the same start
\* returns lowercase(n) and leaves the cursor where the write left it;
\* write_qname of a name with a label of 64 bytes or more fails with
\* SingleLabelLimit.
C26_NameRoundTrip ==
    applied.op = "write_qname" =>
       IF LabelsInRange(applied.arg)
       THEN applied.err = "none" =>
               /\ ReadBack.err = "none"
               /\ ReadBack.v = to_lowercase(applied.arg)
               /\ ReadBack.b.pos = buffer.pos
       ELSE applied.err = "SingleLabelLimit"

\* C26 for the names in which no capital sigma stands before a dot.
C26_NameRoundTripButSigma ==
    (applied.op = "write_qname" /\ applied.arg # << 65, 931, Dot, 98 >>) =>
       IF LabelsInRange(applied.arg)
       THEN applied.err = "none" =>
               /\ ReadBack.err = "none"
               /\ ReadBack.v = to_lowercase(applied.arg)
               /\ ReadBack.b.pos = buffer.pos
       ELSE applied.err = "SingleLabelLimit"

\* "A.b" was written at the end of the buffer and is read back as "a.b".
C26_ReadBackLowercase ==
    /\ applied.op = "write_qname"
    /\ applied.arg = << 65, Dot, 98 >>
    /\ applied.from = 507
    /\ applied.err = "none"
    /\ ReadBack.v = Name_a_b
    /\ ReadBack.b.pos = BUF_SIZE

\* C25: for every valid message m that fits in 512 bytes, Message::read of the
\* buffer Message::write(m) produced yields m with the section counters set
\* from the section lengths.
C25_CodecRoundTrip ==
    applied.op = "Message_read" =>
       /\ applied.err = "none"
       /\ applied.v = set_counts(applied.arg)

\* C25 for the messages with an rcode below 16 in which no record follows a
\* record of an unknown type.
C25_CodecRoundTripOfKnown ==
    (/\ applied.op = "Message_read"
     /\ applied.arg.header.rescode # "BADVERS"
     /\ \A i \in 1..(Len(applied.arg.answers \o applied.arg.authorities
                          \o applied.arg.resources) - 1) :
           (applied.arg.answers \o applied.arg.authorities
              \o applied.arg.resources)[i].rdata.tag # "Unknown") =>
       /\ applied.err = "none"
       /\ applied.v = set_counts(applied.arg)

\* The status is one the sink is configured to ignore: Allow or AllowButError
\* while output_allowed_log is false, NoCheck or NoCheckButError while
\* output_nochecked_log is false.
IgnoredByConfig(st) ==
    \/ st.variant \in { "Allow", "AllowButError" } /\ ~sink.output_allowed_log
    \/ st.variant \in { "NoCheck", "NoCheckButError" } /\ ~sink.output_nochecked_log

\* This step is the call resolved(st).
ResolvedStep(st) ==
    applied' = [op |-> "resolved", from |-> 0, arg |-> st, err |-> "none", v |-> <<>>]

\* The Deny status for the A records of "a.b".
DenyOf_a_b ==
    ResolvedStatus("Deny", ResolvedData_new(QueryType_from(1), Name_a_b), "NXDomain")

\* C29: with threshold N, of the counted events of one fingerprint the first
\* N are emitted, the (N+1)th emits the one warning and nothing else, every
\* later one emits nothing, and each event adds one to the counter of its
\* fingerprint.
C29_RateLimit ==
    [][\A st \in SinkStatuses :
          (ResolvedStep(st) /\ ~IgnoredByConfig(st)) =>
             /\ logged' = logged \o
                   (IF or_insert_0(count_map, LFFResolveEvent_code(st.data)) < threshold
                    THEN << Info(st) >>
                    ELSE IF or_insert_0(count_map, LFFResolveEvent_code(st.data)) = threshold
                    THEN << Warn(st) >>
                    ELSE << >>)
             /\ count_map'[LFFResolveEvent_code(st.data)]
                = or_insert_0(count_map, LFFResolveEvent_code(st.data)) + 1]_vars

\* C29 with the warning on the Nth event, after that event was emitted.
C29_RateLimitWarningOnNth ==
    [][\A st \in SinkStatuses :
          (ResolvedStep(st) /\ ~IgnoredByConfig(st)) =>
             /\ logged' = logged
                   \o (IF or_insert_0(count_map, LFFResolveEvent_code(st.data)) < threshold
                       THEN << Info(st) >> ELSE << >>)
                   \o (IF or_insert_0(count_map, LFFResolveEvent_code(st.data)) + 1 = threshold
                       THEN << Warn(st) >> ELSE << >>)
             /\ count_map'[LFFResolveEvent_code(st.data)]
                = or_insert_0(count_map, LFFResolveEvent_code(st.data)) + 1]_vars

\* C30: a status the sink is configured to ignore is discarded before it is
\* counted: the call emits nothing and leaves every counter as it was.
C30_IgnoredDiscarded ==
    [][\A st \in SinkStatuses :
          (ResolvedStep(st) /\ IgnoredByConfig(st)) =>
             /\ count_map' = count_map
             /\ logged' = logged]_vars

\* Under the default flags a Deny for a.b was counted and emitted, and the
\* Allow for a.b that followed has left the count at 1 and the log as it was.
C30_Witness ==
    /\ ~sink.output_allowed_log
    /\ ~sink.output_nochecked_log
    /\ applied.op = "resolved"
    /\ applied.arg.variant = "Allow"
    /\ IgnoredByConfig(applied.arg)
    /\ DOMAIN count_map = { LFFResolveEvent_code(applied.arg.data) }
    /\ count_map[LFFResolveEvent_code(applied.arg.data)] = 1
    /\ logged = << Info(DenyOf_a_b) >>

\* C31: delete(x) removes x from the exact names only: it returns 1 exactly
\* when x was in names, and it leaves wnames as they were for every argument,
\* a stored pattern included; hence no add or delete makes check false for a
\* name that a stored pattern matches.
C31_DeleteNamesOnly ==
    [][applied' # applied =>
         /\ applied'.op = "delete" =>
               /\ applied'.v[1] = (IF applied'.arg \in checklist.allowlist.names
                                   THEN 1 ELSE 0)
               /\ checklist'.allowlist.names
                     = checklist.allowlist.names \ { applied'.arg }
               /\ checklist'.allowlist.wnames = checklist.allowlist.wnames
         /\ \A w \in checklist.allowlist.wnames : \A y \in ProbeNames :
               WildMatch_matches(w, y) => CheckList_check(checklist'.allowlist, y)]_vars

\* delete("*.b") was called on a list that stores the pattern *.b: it
\* returned 0, the pattern is still stored and a.b is still allowed.
C31_Witness ==
    /\ applied.op = "delete"
    /\ applied.arg = Pattern_star_b
    /\ applied.v[1] = 0
    /\ checklist.allowlist.wnames = { Pattern_star_b }
    /\ checklist.allowlist.names = {}
    /\ CheckList_check(checklist.allowlist, Name_a_b)

\* The names check is asked about once an entry with a wildcard is stored:
\* a.b, ab.b, c.b, b, a.bc and a.a.b.
GlobNames ==
    { Name_a_b, <<97, 98, Dot, 98>>, Name_c_b, Name_b, <<97, Dot, 98, 99>>,
      <<97, Dot, 97, Dot, 98>> }

\* C32: after add(p) for an entry p that contains `*` and/or `?`, check(n) is
\* true for every name n that p matches with `*` as any run of characters,
\* `?` as exactly one character and anything else literal, anchored at both
\* ends.
C32_GlobSemantics ==
    applied.op = "add" =>
       \A n \in GlobNames :
          Anchored(applied.arg, n) => CheckList_check(checklist.allowlist, n)

\* C32 for the entries that contain `*`, with or without `?`.
C32_GlobOfStarEntries ==
    (applied.op = "add" /\ contains_star(applied.arg)) =>
       \A n \in GlobNames :
          Anchored(applied.arg, n) => CheckList_check(checklist.allowlist, n)

\* add("?.*") has just stored the pattern: a.b, c.b and a.bc are allowed.
C32_StarEntryMatches ==
    /\ applied.op = "add"
    /\ applied.arg = <<Quest, Dot, Star>>
    /\ applied.v[1] = 1
    /\ checklist.allowlist.wnames = { <<Quest, Dot, Star>> }
    /\ CheckList_check(checklist.allowlist, Name_c_b)
    /\ CheckList_check(checklist.allowlist, <<97, Dot, 98, 99>>)

\* C33: read_range(len) and get_range(pos, len) fail with EndOfBuffer only
\* when the range would pass the end of the 512-byte buffer: a range that
\* ends exactly at byte 512 succeeds, and a failure leaves the cursor where
\* it was.
C33_RangeUpToTheEnd ==
    /\ applied.op = "read_range" =>
          /\ applied.err = "none" <=> applied.from + applied.arg <= BUF_SIZE
          /\ applied.err # "none" =>
                applied.err = "EndOfBuffer" /\ buffer.pos = applied.from
    /\ applied.op = "get_range" =>
          /\ applied.err = "none" <=> applied.arg[1] + applied.arg[2] <= BUF_SIZE
          /\ applied.err # "none" => applied.err = "EndOfBuffer"
          /\ buffer.pos = applied.from

\* C33 with the bound of the source: a range succeeds exactly when it ends
\* before byte 512, and a failure leaves the cursor where it was.
C33_RangeBeforeTheEnd ==
    /\ applied.op = "read_range" =>
          /\ applied.err = "none" <=> applied.from + applied.arg < BUF_SIZE
          /\ applied.err # "none" =>
                applied.err = "EndOfBuffer" /\ buffer.pos = applied.from
    /\ applied.op = "get_range" =>
          /\ applied.err = "none" <=> applied.arg[1] + applied.arg[2] < BUF_SIZE
          /\ applied.err # "none" => applied.err = "EndOfBuffer"
          /\ buffer.pos = applied.from

\* read_range(2) with the cursor at 510 was refused and left the cursor there.
C33_LastBytesRefused ==
    /\ applied.op = "read_range"
    /\ applied.from = 510
    /\ applied.arg = 2
    /\ applied.err = "EndOfBuffer"
    /\ buffer.pos = 510

\* The flag fields and the rcode of the two headers are the same.
SameFlags(h, g) ==
    /\ g.recursion_desired = h.recursion_desired
    /\ g.truncated_message = h.truncated_message
    /\ g.authoritative_answer = h.authoritative_answer
    /\ g.opcode = h.opcode
    /\ g.response = h.response
    /\ g.rescode = h.rescode
    /\ g.checking_disabled = h.checking_disabled
    /\ g.authed_data = h.authed_data
    /\ g.z = h.z
    /\ g.recursion_available = h.recursion_available

\* C34: for every combination of the flag bits, every opcode of 0..15 and
\* every ResultCode of the enumeration, the extended codes 16..23 included,
\* Header::write lays the fields out without overlap, so that Header::read of
\* the written bytes returns the same flags, opcode and rcode.
C34_FlagLayout ==
    applied.op = "Header_read" =>
       /\ applied.err = "none"
       /\ SameFlags(applied.arg, applied.v)

\* C34 for the rcodes below 16.
C34_FlagLayoutBelow16 ==
    (applied.op = "Header_read" /\ ResultCode_u8(applied.arg.rescode) < 16) =>
       /\ applied.err = "none"
       /\ SameFlags(applied.arg, applied.v)

\* A header with the rcode BADVERS and no flag of the second byte was written
\* and read back with NoError and cd set.
C34_ExtendedCodeAsFlag ==
    /\ applied.op = "Header_read"
    /\ applied.arg.rescode = "BADVERS"
    /\ ~applied.arg.checking_disabled
    /\ applied.v.rescode = "NoError"
    /\ applied.v.checking_disabled

RECURSIVE NameEnd(_, _)
\* The offset at which the name at offset p of buf stops being a run of
\* labels: the offset of its terminating zero byte or of its first pointer,
\* or 512 when the labels run to the end of the buffer.
NameEnd(buf, p) ==
    IF p >= BUF_SIZE THEN BUF_SIZE
    ELSE IF buf[p + 1] = 0 \/ buf[p + 1] >= 192 THEN p
    ELSE NameEnd(buf, p + 1 + buf[p + 1])

\* C35: when read_qname returns a name that holds no pointer the cursor is
\* just past the terminating zero byte; when the name holds pointers the
\* cursor is exactly 2 bytes past the first pointer, whatever the later jumps.
C35_CursorAfterName ==
    (applied.op = "read_qname" /\ applied.err = "none") =>
       /\ NameEnd(buffer.buf, applied.from) < BUF_SIZE
       /\ buffer.pos = NameEnd(buffer.buf, applied.from)
             + (IF buffer.buf[NameEnd(buffer.buf, applied.from) + 1] = 0 THEN 1 ELSE 2)

\* read_qname has decoded "b.a" from offset 0 through the pointers at
\* offsets 2 and 8, and the cursor is at offset 4.
C35_Witness ==
    /\ applied.op = "read_qname"
    /\ applied.from = 0
    /\ buffer.buf = recv_into(LabelPointerBytes).buf
    /\ applied.err = "none"
    /\ applied.v = << 98, Dot, 97 >>
    /\ buffer.pos = 4

\* read_qname has decoded the name "a" that holds no pointer, and the cursor
\* is at offset 3, past the zero byte.
C35_WitnessNoPointer ==
    /\ applied.op = "read_qname"
    /\ applied.from = 0
    /\ buffer.buf = recv_into(ChainBytes(0, 0)).buf
    /\ applied.err = "none"
    /\ applied.v = << 97 >>
    /\ buffer.pos = 3

\* The questions of the datagram the worker has received, as Message::read
\* decodes them.
ReceivedQuestions == Message_read(recv_into(datagram)).v.questions

\* The worker holds the question of a request that carried several.
OneOfSeveral ==
    /\ pc \in { "check", "lookup" }
    /\ question # <<>>
    /\ Len(ReceivedQuestions) > 1

\* C36: for a request that carries more than one question, the question the
\* server classifies and forwards is the first one of the question section.
C36_FirstQuestion ==
    OneOfSeveral => question[1] = ReceivedQuestions[1]

\* C36 as the source has it: the question is the last one of the section.
C36_LastQuestion ==
    OneOfSeveral => question[1] = ReceivedQuestions[Len(ReceivedQuestions)]

\* The request asked for the A records of a.b and then for the MX records of
\* b: the worker is about to forward the second question without a check.
C36_SecondQuestionForwarded ==
    /\ pc = "lookup"
    /\ status = "none"
    /\ question # <<>>
    /\ Len(ReceivedQuestions) = 2
    /\ ReceivedQuestions[1].name = Name_a_b
    /\ question[1].name = Name_b
    /\ question[1].qtype.kind = "UNKNOWN"

\* The "save" handler is between File::create and the flush of the file.
SaveWriting == listing # <<>> /\ ipctl_verb(listing[1]) = Str_save

\* C37: no holder of the lock of the shared filter performs I/O while holding
\* it: while the UDP worker waits for a datagram, exchanges with the upstream
\* or sends, and while the "save" handler writes the file, the one doing the
\* I/O holds neither the read nor the write lock.
C37_NoIoUnderLock ==
    /\ pc \in { "recv", "lookup", "send" } => "worker" \notin lock
    /\ SaveWriting => "save" \notin lock

\* C37 for the UDP worker alone.
C37_WorkerIoWithoutLock ==
    pc \in { "recv", "lookup", "send" } => "worker" \notin lock

\* "save" has created the file and not yet flushed it, holding the read
\* lock: the file is empty and no handler can change the allowlist.
C37_SaveWritesUnderLock ==
    /\ SaveWriting
    /\ "save" \in lock
    /\ file = [saved |-> TRUE, lines |-> <<>>]
    /\ remaining # <<>>
    /\ ~CanWrite

\* C39: no access leaves the 512-byte buffer: get(pos) and read_qname return
\* EndOfBuffer instead of indexing a byte at a position of 512 or above, also
\* when a compression pointer carries an offset of 512..16383 or a label
\* starts at the last bytes of the buffer.
C39_NoAccessPastTheEnd ==
    /\ applied.op = "get" =>
          /\ applied.err # "panic"
          /\ applied.arg >= BUF_SIZE => applied.err = "EndOfBuffer"
    /\ applied.op = "read_qname" => applied.err # "panic"

\* C39 as the source has it: get refuses by the cursor, not by its argument,
\* and indexes the array with any argument while the cursor is inside.
C39_GuardedByCursor ==
    applied.op = "get" =>
       /\ applied.from >= BUF_SIZE <=> applied.err = "EndOfBuffer"
       /\ (applied.from < BUF_SIZE /\ applied.arg >= BUF_SIZE) <=> applied.err = "panic"

\* read_qname at offset 0 of a buffer that starts with a pointer to offset
\* 512 has indexed the array past its end.
C39_FarPointerIndexed ==
    /\ applied.op = "read_qname"
    /\ applied.from = 0
    /\ buffer.buf = recv_into(FarPointerBytes).buf
    /\ applied.err = "panic"

\* read_qname has left its loop.
QnameEnded == applied.op = "read_qname_loop" /\ applied.err # "continue"

\* C38: read_qname terminates for every buffer content and every start
\* position: after a bounded number of iterations it returns a name or
\* returns an error, whatever pointer cycles, self-pointers or label chains
\* the buffer holds.
C38_ReturnsNameOrError ==
    <>(QnameEnded /\ applied.err \in { "none", "EndOfBuffer", "JumpLimit" })

\* C38 without the way the loop is left: the loop ends, and at most 6
\* pointers are followed.
C38_LoopEnds ==
    /\ <>QnameEnded
    /\ [](applied.op = "read_qname_loop" => applied.arg.jumps_performed <= max_jumps + 1)

\* The loop, taken one iteration at a time, leaves the result and the cursor
\* that read_qname leaves.
C38_SameAsReadQname ==
    QnameEnded =>
       /\ applied.err = read_qname(seek(buffer, applied.from)).err
       /\ applied.err = "none" =>
             /\ applied.v = read_qname(seek(buffer, applied.from)).v
             /\ buffer.pos = read_qname(seek(buffer, applied.from)).b.pos

\* The loop was left by a panic: the pointer at offset 0 led to offset 512.
C38_LeftByPanic ==
    /\ QnameEnded
    /\ applied.from = 0
    /\ buffer.buf = recv_into(FarPointerBytes).buf
    /\ applied.arg.pos = BUF_SIZE
    /\ applied.err = "panic"

\* C40: no sequence of ipctl commands changes the denylist: log, allow, deny,
\* save, list and invalid commands leave denylist.names and denylist.wnames
\* as they were at startup, so a name the denylist denies stays classified
\* Deny.
C40_DenylistUnchanged ==
    [][/\ checklist'.denylist.names = checklist.denylist.names
       /\ checklist'.denylist.wnames = checklist.denylist.wnames
       /\ \A n \in CheckedNames :
             CompositeCheckList_check(checklist, n) = "Deny" =>
                CompositeCheckList_check(checklist', n) = "Deny"]_vars

\* "deny a.b" has removed a.b from the allowlist, "allow" having been handled
\* or not: the denylist still holds a.b, which is classified Deny.
C40_Witness ==
    /\ command = Line(Str_deny, Name_a_b)
    /\ reply = Reply("Remove {fqdn} from AllowList", Name_a_b)
    /\ Name_a_b \in checklist.denylist.names
    /\ Name_a_b \notin checklist.allowlist.names
    /\ CompositeCheckList_check(checklist, Name_a_b) = "Deny"

============================================================================
